---- MODULE Spec2Model ----
(***************************************************************************)
(* A model of the module specifier resolver of                             *)
(* packages/vite/src/node/plugins/resolve.ts.                              *)
(*                                                                         *)
(* Strings are sequences of one-character strings, so that indexOf, slice, *)
(* startsWith, extname and path.join are computed the way the code         *)
(* computes them.                                                          *)
(***************************************************************************)
EXTENDS Integers, Sequences, FiniteSets, TLC

VARIABLES
  path,            \* splitFileAndPostfix: the argument
  split,           \* splitFileAndPostfix: the returned { file, postfix }
  nodeId,          \* tryNodeResolve: the specifier whose package ids are enumerated
  possiblePkgIds,  \* tryNodeResolve: the enumerated candidate package ids
  fsys,            \* the filesystem: files, directories, UMD files, manifests
  webResolvedImports,   \* PackageData.webResolvedImports of every package
  nodeResolvedImports,  \* PackageData.nodeResolvedImports of every package
  last,            \* the last direct call of a resolver function, and its outcome
  conf,            \* resolveId: the configuration of the plugin
  calls,           \* resolveId: the calls made, each with its position and outcome
  idToPkgMap,      \* the module-level map from a resolved id to its package
  optimizer        \* the dependency optimizer: its scan and its dependencies

pureVars == <<path, split, nodeId, possiblePkgIds>>
resolverVars == <<conf, calls, idToPkgMap, optimizer>>
worldVars == <<fsys, webResolvedImports, nodeResolvedImports, last, conf, calls, idToPkgMap,
               optimizer>>
vars == <<path, split, nodeId, possiblePkgIds,
          fsys, webResolvedImports, nodeResolvedImports, last,
          conf, calls, idToPkgMap, optimizer>>

(***************************************************************************)
(* Bounds of the model.                                                    *)
(***************************************************************************)
MaxPathLen == 4      \* longest path handed to splitFileAndPostfix
MaxParts == 4        \* most '/'-separated parts of a bare specifier
MaxCallDepth == 3    \* resolvePackageEntry calls the call stack holds
MaxCalls == 2        \* calls the host makes in one behaviour

(***************************************************************************)
(* JavaScript string primitives.                                           *)
(***************************************************************************)
\* String.prototype.indexOf(c, from) with 0-based indices; -1 when absent.
IndexOfFrom(s, c, from) ==
  LET lo == IF from < 0 THEN 1 ELSE from + 1
  IN IF \A i \in lo..Len(s) : s[i] # c THEN -1
     ELSE (CHOOSE i \in lo..Len(s) : s[i] = c /\ \A j \in lo..(i - 1) : s[j] # c) - 1

IndexOf(s, c) == IndexOfFrom(s, c, 0)

\* String.prototype.lastIndexOf(c); -1 when absent.
LastIndexOf(s, c) ==
  IF \A i \in 1..Len(s) : s[i] # c THEN -1
  ELSE (CHOOSE i \in 1..Len(s) : s[i] = c /\ \A j \in (i + 1)..Len(s) : s[j] # c) - 1

\* String.prototype.slice(from, to) for 0 <= from, to (to is exclusive).
Slice(s, from, to) == SubSeq(s, from + 1, IF to > Len(s) THEN Len(s) ELSE to)

\* String.prototype.slice(from).
SliceFrom(s, from) == SubSeq(s, from + 1, Len(s))

StartsWith(s, p) == Len(p) <= Len(s) /\ SubSeq(s, 1, Len(p)) = p

EndsWith(s, p) == Len(p) <= Len(s) /\ SubSeq(s, Len(s) - Len(p) + 1, Len(s)) = p

\* String.prototype.includes(p).
Includes(s, p) == \E i \in 0..(Len(s) - Len(p)) : SubSeq(s, i + 1, i + Len(p)) = p

(***************************************************************************)
(* splitFileAndPostfix (resolve.ts 356-369).                               *)
(***************************************************************************)
splitFileAndPostfix(p) ==
  LET q == IndexOf(p, "?")
      postfixIndex == IF q < 0 THEN IndexOf(p, "#") ELSE q
  IN IF postfixIndex > 0
     THEN [file |-> Slice(p, 0, postfixIndex), postfix |-> SliceFrom(p, postfixIndex)]
     ELSE [file |-> p, postfix |-> <<>>]

\* The value of `possiblePkgIds` before the enumeration ran.
NoPkgIds == << <<"-">> >>

\* The value of `split` before any call returned.
NoSplit == [file |-> <<"-">>, postfix |-> <<"-">>]

\* The plugin in the behaviours that make no resolveId call.
ResolverIdle ==
  /\ conf = <<>>
  /\ calls = <<>>
  /\ idToPkgMap = <<>>
  /\ optimizer = <<>>

\* The state of the resolver in the behaviours that only apply a pure function.
WorldIdle ==
  /\ ResolverIdle
  /\ fsys = <<>>
  /\ webResolvedImports = <<>>
  /\ nodeResolvedImports = <<>>
  /\ last = <<>>

PathChars == {"a", "?", "#"}

PathInputs == UNION {[1..n -> PathChars] : n \in 0..MaxPathLen}

InitSplit ==
  /\ path \in PathInputs
  /\ split = NoSplit
  /\ nodeId = <<>> /\ possiblePkgIds = NoPkgIds
  /\ WorldIdle

CallSplitFileAndPostfix ==
  /\ split = NoSplit
  /\ split' = splitFileAndPostfix(path)
  /\ UNCHANGED <<path, nodeId, possiblePkgIds, worldVars>>

NextSplit == CallSplitFileAndPostfix

SpecSplit == InitSplit /\ [][NextSplit]_vars

\* The index at which the earliest of '?' and '#' occurs in s (-1 when neither does).
EarliestPostfixIndex(s) ==
  LET q == IndexOf(s, "?")
      h == IndexOf(s, "#")
  IN IF q < 0 THEN h ELSE IF h < 0 THEN q ELSE IF q < h THEN q ELSE h

HasPostfixCharAfterStart(s) == \E i \in 2..Len(s) : s[i] \in {"?", "#"}

\* C6: for every path with a '?' or '#' at an index greater than 0,
\* splitFileAndPostfix splits at the earliest occurrence of either character,
\* also when a '#' occurs before the first '?'.
C6_SplitsAtEarliest ==
  (split # NoSplit /\ HasPostfixCharAfterStart(path) /\ EarliestPostfixIndex(path) > 0)
    => /\ split.file = Slice(path, 0, EarliestPostfixIndex(path))
       /\ split.postfix = SliceFrom(path, EarliestPostfixIndex(path))

(***************************************************************************)
(* tryNodeResolve: the candidate package ids (resolve.ts 545-577).         *)
(***************************************************************************)
\* String.prototype.trim() for the space character.
RECURSIVE TrimStart(_)
TrimStart(s) == IF s # <<>> /\ Head(s) = " " THEN TrimStart(Tail(s)) ELSE s

RECURSIVE TrimEnd(_)
TrimEnd(s) ==
  IF s # <<>> /\ s[Len(s)] = " " THEN TrimEnd(SubSeq(s, 1, Len(s) - 1)) ELSE s

Trim(s) == TrimEnd(TrimStart(s))

\* path.extname of a single path part: from the last '.' on, '' when the part
\* has no '.', or only a leading one, or is '..'.
extname(part) ==
  LET dot == LastIndexOf(part, ".")
  IN IF dot <= 0 \/ part = <<".", ".">> THEN <<>> ELSE SliceFrom(part, dot)

\* 'foo > bar > baz' => 'foo > bar' (resolve.ts 548-549).
nestedRootOf(id) == Trim(Slice(id, 0, LastIndexOf(id, ">")))

\* 'foo > bar > baz' => 'baz' (resolve.ts 548-550).
nestedPathOf(id) == Trim(SliceFrom(id, LastIndexOf(id, ">") + 1))

\* A mutant: a leading '@scope' part is kept as a candidate of its own.
RECURSIVE enumeratePkgIdsKeepScope(_, _, _)
enumeratePkgIdsKeepScope(nestedPath, prevSlashIndex, ids) ==
  LET found == IndexOfFrom(nestedPath, "/", prevSlashIndex + 1)
      slashIndex == IF found < 0 THEN Len(nestedPath) ELSE found
      part == Slice(nestedPath, prevSlashIndex + 1, slashIndex)
  IN IF part = <<>> THEN ids
     ELSE IF Len(ids) > 0 /\ extname(part) # <<>>
          THEN enumeratePkgIdsKeepScope(nestedPath, slashIndex, ids)
          ELSE enumeratePkgIdsKeepScope(nestedPath, slashIndex,
                                        Append(ids, Slice(nestedPath, 0, slashIndex)))

\* The loop of resolve.ts 552-577, one iteration per unfolding.
RECURSIVE enumeratePkgIds(_, _, _)
enumeratePkgIds(nestedPath, prevSlashIndex, ids) ==
  LET found == IndexOfFrom(nestedPath, "/", prevSlashIndex + 1)
      slashIndex == IF found < 0 THEN Len(nestedPath) ELSE found
      part == Slice(nestedPath, prevSlashIndex + 1, slashIndex)
  IN IF part = <<>> THEN ids
     ELSE IF (IF Len(ids) > 0 THEN extname(part) # <<>> ELSE part[1] = "@")
          THEN enumeratePkgIds(nestedPath, slashIndex, ids)
          ELSE enumeratePkgIds(nestedPath, slashIndex,
                               Append(ids, Slice(nestedPath, 0, slashIndex)))

\* possiblePkgIds before the reverse() of resolve.ts 598.
possiblePkgIdsOf(id) == enumeratePkgIds(nestedPathOf(id), -1, <<>>)

\* The path parts bare specifiers are built from.
SpecifierParts ==
  { <<"@", "s", "c", "o", "p", "e">>,    \* @scope
    <<"a">>, <<"b">>, <<"c">>,
    <<"c", ".", "j", "s">>,              \* c.js
    <<"a", ".", "b">> }                  \* a.b

RECURSIVE JoinParts(_)
JoinParts(parts) ==
  IF Len(parts) = 1 THEN parts[1]
  ELSE parts[1] \o <<"/">> \o JoinParts(Tail(parts))

\* A nested selection prefix, 'x > ', or none.
NestedPrefixes == { <<>>, <<"x", " ", ">", " ">> }

SpecifierInputs ==
  { pre \o JoinParts(parts) :
      pre \in NestedPrefixes,
      parts \in UNION {[1..n -> SpecifierParts] : n \in 1..MaxParts} }

InitPkgIds ==
  /\ nodeId \in SpecifierInputs
  /\ possiblePkgIds = NoPkgIds
  /\ path = <<>> /\ split = NoSplit
  /\ WorldIdle

EnumeratePossiblePkgIds ==
  /\ possiblePkgIds = NoPkgIds
  /\ possiblePkgIds' = possiblePkgIdsOf(nodeId)
  /\ UNCHANGED <<path, split, nodeId, worldVars>>

NextPkgIds == EnumeratePossiblePkgIds

SpecPkgIds == InitPkgIds /\ [][NextPkgIds]_vars

Id_scope_a_b_cjs ==      \* @scope/a/b/c.js
  <<"@", "s", "c", "o", "p", "e", "/", "a", "/", "b", "/", "c", ".", "j", "s">>
Id_a_b_cjs == <<"a", "/", "b", "/", "c", ".", "j", "s">>     \* a/b/c.js
Id_adotb_c == <<"a", ".", "b", "/", "c">>                    \* a.b/c

\* C5 as stated: the candidate package ids are ['@scope/a', '@scope/a/b'] for
\* '@scope/a/b/c.js', ['a', 'a/b'] for 'a/b/c.js' and ['a.b'] for 'a.b/c'.
C5_PossiblePkgIds_Original ==
  possiblePkgIds # NoPkgIds =>
    /\ nodeId = Id_scope_a_b_cjs =>
         possiblePkgIds = << <<"@", "s", "c", "o", "p", "e", "/", "a">>,
                             <<"@", "s", "c", "o", "p", "e", "/", "a", "/", "b">> >>
    /\ nodeId = Id_a_b_cjs => possiblePkgIds = << <<"a">>, <<"a", "/", "b">> >>
    /\ nodeId = Id_adotb_c => possiblePkgIds = << <<"a", ".", "b">> >>

\* C5 (amended): the candidate package ids are ['@scope/a', '@scope/a/b'] for
\* '@scope/a/b/c.js', ['a', 'a/b'] for 'a/b/c.js' and ['a.b', 'a.b/c'] for
\* 'a.b/c': a later part without an extension is a candidate too.
C5_PossiblePkgIds ==
  possiblePkgIds # NoPkgIds =>
    /\ nodeId = Id_scope_a_b_cjs =>
         possiblePkgIds = << <<"@", "s", "c", "o", "p", "e", "/", "a">>,
                             <<"@", "s", "c", "o", "p", "e", "/", "a", "/", "b">> >>
    /\ nodeId = Id_a_b_cjs => possiblePkgIds = << <<"a">>, <<"a", "/", "b">> >>
    /\ nodeId = Id_adotb_c =>
         possiblePkgIds = << <<"a", ".", "b">>, <<"a", ".", "b", "/", "c">> >>

\* A scoped specifier with a file part has had its candidates enumerated.
C5_Witness == nodeId = Id_scope_a_b_cjs /\ possiblePkgIds # NoPkgIds

(***************************************************************************)
(* node:path (posix), as far as resolve.ts uses it.                        *)
(***************************************************************************)
\* The parts of p between its '/' separators ('' parts included).
RECURSIVE SplitSlash(_)
SplitSlash(p) ==
  LET i == IndexOf(p, "/")
  IN IF i < 0 THEN <<p>> ELSE <<Slice(p, 0, i)>> \o SplitSlash(SliceFrom(p, i + 1))

RECURSIVE JoinSlash(_)
JoinSlash(segs) ==
  IF segs = <<>> THEN <<>>
  ELSE IF Len(segs) = 1 THEN segs[1]
  ELSE segs[1] \o <<"/">> \o JoinSlash(Tail(segs))

DotDot == <<".", ".">>

\* normalizeString of node:path: drops '' and '.', resolves '..'.
RECURSIVE NormalizeSegs(_, _, _)
NormalizeSegs(segs, out, allowAboveRoot) ==
  IF segs = <<>> THEN out
  ELSE LET s == Head(segs)
           rest == Tail(segs)
       IN IF s = <<>> \/ s = <<".">> THEN NormalizeSegs(rest, out, allowAboveRoot)
          ELSE IF s = DotDot
               THEN IF out # <<>> /\ out[Len(out)] # DotDot
                    THEN NormalizeSegs(rest, SubSeq(out, 1, Len(out) - 1), allowAboveRoot)
                    ELSE IF allowAboveRoot
                         THEN NormalizeSegs(rest, Append(out, s), allowAboveRoot)
                         ELSE NormalizeSegs(rest, out, allowAboveRoot)
               ELSE NormalizeSegs(rest, Append(out, s), allowAboveRoot)

isAbsolute(p) == p # <<>> /\ p[1] = "/"

\* A path that has no '', '.' or '..' part is its own normal form.
HasNoDotPart(p) ==
  /\ p # <<>> /\ p[1] # "."
  /\ \A i \in 1..(Len(p) - 1) : p[i] = "/" => p[i + 1] \notin {"/", "."}

\* The end of path.posix.normalize: '.' for an empty relative path, the
\* trailing slash kept, the leading slash of an absolute path put back.
NormalizedForm(body, abs, trailing) ==
  IF body = <<>>
  THEN IF abs THEN <<"/">> ELSE IF trailing THEN <<".", "/">> ELSE <<".">>
  ELSE (IF abs THEN <<"/">> ELSE <<>>) \o body \o (IF trailing THEN <<"/">> ELSE <<>>)

\* path.posix.normalize.
PosixNormalize(p) ==
  IF p = <<>> THEN <<".">>
  ELSE IF HasNoDotPart(p) THEN p
  ELSE NormalizedForm(JoinSlash(NormalizeSegs(SplitSlash(p), <<>>, ~isAbsolute(p))),
                      isAbsolute(p), p[Len(p)] = "/")

\* path.join(a, b): '' arguments are skipped.
PathJoin(a, b) ==
  IF a = <<>> THEN PosixNormalize(b)
  ELSE IF b = <<>> THEN PosixNormalize(a)
  ELSE PosixNormalize(a \o <<"/">> \o b)

StripTrailingSlash(p) ==
  IF Len(p) > 1 /\ p[Len(p)] = "/" THEN SubSeq(p, 1, Len(p) - 1) ELSE p

\* path.resolve(base, p) for an absolute base.
PathResolve(base, p) ==
  StripTrailingSlash(PosixNormalize(IF isAbsolute(p) THEN p ELSE base \o <<"/">> \o p))

\* path.dirname.
dirname(p) ==
  LET q == StripTrailingSlash(p)
      i == LastIndexOf(q, "/")
  IN IF i < 0 THEN <<".">> ELSE IF i = 0 THEN <<"/">> ELSE Slice(q, 0, i)

\* path.basename.
basename(p) ==
  LET q == StripTrailingSlash(p)
  IN SliceFrom(q, LastIndexOf(q, "/") + 1)

\* path.extname of a whole path.
PathExtname(p) == extname(basename(p))

RECURSIVE CommonPrefixLen(_, _)
CommonPrefixLen(a, b) ==
  IF a # <<>> /\ b # <<>> /\ Head(a) = Head(b)
  THEN 1 + CommonPrefixLen(Tail(a), Tail(b)) ELSE 0

\* path.relative(from, to) for absolute paths.
PathRelative(from, to) ==
  LET f == NormalizeSegs(SplitSlash(from), <<>>, FALSE)
      g == NormalizeSegs(SplitSlash(to), <<>>, FALSE)
      n == CommonPrefixLen(f, g)
      ups == [i \in 1..(Len(f) - n) |-> DotDot]
  IN JoinSlash(ups \o SubSeq(g, n + 1, Len(g)))

(***************************************************************************)
(* The state of the resolver and of its collaborators.                     *)
(*                                                                         *)
(* fsys is the filesystem: files (regular files), dirs (directories), umd  *)
(* (the files whose content matches the UMD/CJS patterns of resolve.ts     *)
(* 815-817) and manifests (directory -> parsed package.json).              *)
(***************************************************************************)
Undefined == [t |-> "undefined", s |-> <<>>]
Str(s) == [t |-> "string", s |-> s]
False == [t |-> "false", s |-> <<>>]

\* JavaScript truthiness of a string | false | undefined value.
Truthy(v) == v.t = "string" /\ v.s # <<>>

NoErr == [kind |-> "none", a |-> <<>>, b |-> <<>>]

\* What the probes thread through: io counts the filesystem probes made (stat,
\* readFile, realpath), skip is options.skipPackageJson, ovf records that the
\* call stack was exhausted.
St0 == [io |-> 0, skip |-> FALSE, ovf |-> FALSE]

Io(st, n) == [st EXCEPT !.io = @ + n]

Ret(v, st) == [val |-> v, err |-> NoErr, st |-> st, wrote |-> FALSE]

Throw(e, st) == [val |-> <<>>, err |-> e, st |-> st, wrote |-> FALSE]

Failed(r) == r.err.kind # "none"

\* The path the filesystem looks up for p.
FsKey(p) == StripTrailingSlash(PosixNormalize(p))

\* fs.statSync(p).isDirectory().
IsDirectory(p) == FsKey(p) \in fsys.dirs

IsRegularFile(p) == p # <<>> /\ p[Len(p)] # "/" /\ FsKey(p) \in fsys.files

\* isFileReadable of ../utils.
isFileReadable(p) == IsDirectory(p) \/ IsRegularFile(p)

\* getRealPath (resolve.ts 1039-1045) on a filesystem without symbolic links.
getRealPath(resolved) == PosixNormalize(resolved)

DEFAULT_EXTENSIONS ==
  << <<".", "m", "j", "s">>, <<".", "j", "s">>, <<".", "m", "t", "s">>, <<".", "t", "s">>, <<".", "j", "s", "x">>, <<".", "t", "s", "x">>, <<".", "j", "s", "o", "n">> >>

DEFAULT_MAIN_FIELDS == <<"module", "jsnext:main", "jsnext">>

\* isPossibleTsOutput of ../utils.
isPossibleTsOutput(file) ==
  \E e \in {<<".", "j", "s">>, <<".", "j", "s", "x">>, <<".", "m", "j", "s">>, <<".", "c", "j", "s">>} : EndsWith(file, e)

\* getPotentialTsSrcPaths of ../utils.
getPotentialTsSrcPaths(file) ==
  LET stem(e) == SubSeq(file, 1, Len(file) - Len(e))
  IN IF EndsWith(file, <<".", "m", "j", "s">>) THEN << stem(<<".", "m", "j", "s">>) \o <<".", "m", "t", "s">> >>
     ELSE IF EndsWith(file, <<".", "c", "j", "s">>) THEN << stem(<<".", "c", "j", "s">>) \o <<".", "c", "t", "s">> >>
     ELSE IF EndsWith(file, <<".", "j", "s", "x">>) THEN << stem(<<".", "j", "s", "x">>) \o <<".", "t", "s", "x">> >>
     ELSE << stem(<<".", "j", "s">>) \o <<".", "t", "s">>, stem(<<".", "j", "s">>) \o <<".", "t", "s", "x">> >>

(***************************************************************************)
(* Package manifests.                                                      *)
(***************************************************************************)
NoBrowser == [t |-> "none", s |-> <<>>, map |-> <<>>]
BrowserString(s) == [t |-> "string", s |-> s, map |-> <<>>]
BrowserObject(map) == [t |-> "object", s |-> <<>>, map |-> map]

NoExports == [t |-> "none", s |-> <<>>, map |-> <<>>]
ExportsString(s) == [t |-> "string", s |-> s, map |-> <<>>]
ExportsObject(map) == [t |-> "object", s |-> <<>>, map |-> map]

\* data[field] when it is a string, '' otherwise (resolve.ts 831).
StringField(data, field) ==
  IF field = "browser" THEN (IF data.browser.t = "string" THEN data.browser.s ELSE <<>>)
  ELSE IF field \in DOMAIN data.fields THEN data.fields[field]
  ELSE <<>>

\* loadPackageData of ../packages: the manifest of a directory, when it has one.
HasManifest(dir) == FsKey(dir) \in DOMAIN fsys.manifests

loadPackageData(dir) == fsys.manifests[FsKey(dir)]

equalWithoutSuffix(p, key, suffix) ==
  EndsWith(key, suffix) /\ Slice(key, 0, Len(key) - Len(suffix)) = p

\* The loop of mapWithBrowserField over the keys of the map, in their order.
RECURSIVE mapWithBrowserFieldFrom(_, _, _)
mapWithBrowserFieldFrom(normalizedPath, map, i) ==
  IF i > Len(map) THEN Undefined
  ELSE LET normalizedKey == PosixNormalize(map[i].key)
       IN IF \/ normalizedPath = normalizedKey
             \/ equalWithoutSuffix(normalizedPath, normalizedKey, <<".", "j", "s">>)
             \/ equalWithoutSuffix(normalizedPath, normalizedKey, <<"/", "i", "n", "d", "e", "x", ".", "j", "s">>)
          THEN map[i].to
          ELSE mapWithBrowserFieldFrom(normalizedPath, map, i + 1)

mapWithBrowserField(relativePathInPkgDir, map) ==
  mapWithBrowserFieldFrom(PosixNormalize(relativePathInPkgDir), map, 1)

\* The conditions resolveExports hands to the exports algorithm, with those the
\* algorithm adds itself (default, import | require, browser | node).
ExportConditions(o, targetWeb) ==
  {"default",
   IF o.isProduction THEN "production" ELSE "development",
   IF o.isRequire THEN "require" ELSE "import",
   IF targetWeb THEN "browser" ELSE "node"}
  \cup (IF o.isRequire THEN {} ELSE {"module"})
  \cup o.conditions

\* The first target of a conditional export whose condition is active.
RECURSIVE FirstActiveTarget(_, _, _)
FirstActiveTarget(targets, conds, i) ==
  IF i > Len(targets) THEN Undefined
  ELSE IF targets[i].cond \in conds THEN Str(targets[i].to)
  ELSE FirstActiveTarget(targets, conds, i + 1)

RECURSIVE ExportsEntry(_, _, _, _)
ExportsEntry(map, key, conds, i) ==
  IF i > Len(map) THEN Undefined
  ELSE IF map[i].key = key THEN FirstActiveTarget(map[i].targets, conds, 1)
  ELSE ExportsEntry(map, key, conds, i + 1)

\* resolveExports (resolve.ts 888-907): the exports algorithm for one key.
resolveExports(data, key, o, targetWeb) ==
  IF data.exports.t = "string"
  THEN (IF PosixNormalize(key) = <<".">> THEN Str(data.exports.s) ELSE Undefined)
  ELSE IF data.exports.t = "object"
       THEN ExportsEntry(data.exports.map, key, ExportConditions(o, targetWeb), 1)
       ELSE Undefined


(***************************************************************************)
(* The filesystem probe and the entry-point resolver (resolve.ts 371-528,  *)
(* 765-886).  Every operator takes the threaded state st and the number    *)
(* depth of resolvePackageEntry calls on the stack, and returns            *)
(* [val, err, st, wrote]: val is '' for undefined, err the raised error.   *)
(***************************************************************************)
RangeError == [kind |-> "RangeError", a |-> <<>>, b |-> <<>>]

\* packageEntryFailure (resolve.ts 880-886).
packageEntryFailure(id, details) == [kind |-> "entry", a |-> id, b |-> details]

\* e.message: the text of the subpath error (resolve.ts 945-948) in full, the
\* others as far as the model tells messages apart.
Message(e) == IF e.kind = "RangeError" THEN <<"M", "a", "x", "i", "m", "u", "m", " ", "c", "a", "l", "l", " ", "s", "t", "a", "c", "k", " ", "s", "i", "z", "e", " ", "e", "x", "c", "e", "e", "d", "e", "d">>
              ELSE IF e.kind = "entry" THEN <<"F", "a", "i", "l", "e", "d", " ", "t", "o", " ", "r", "e", "s", "o", "l", "v", "e", " ", "e", "n", "t", "r", "y", " ", "f", "o", "r", " ", "p", "a", "c", "k", "a", "g", "e">>
              ELSE IF e.kind = "subpath"
                   THEN <<"P", "a", "c", "k", "a", "g", "e", " ", "s", "u", "b", "p", "a", "t", "h", " ", "'">> \o e.a \o <<"'", " ", "i", "s", " ", "n", "o", "t", " ", "d", "e", "f", "i", "n", "e", "d", " ", "b", "y", " ", "\"", "e", "x", "p", "o", "r", "t", "s", "\"", " ", "i", "n", " ">> \o e.b \o <<".">>
              ELSE e.a

Attempt(file, postfix, tryIndex) ==
  [file |-> file, postfix |-> postfix, tryIndex |-> tryIndex]

\* The probes of tryFsResolve for one extension, in order (resolve.ts 411-440).
ExtAttempts(fsPath, sp, ext) ==
  (IF sp.postfix # <<>> THEN << Attempt(fsPath \o ext, <<>>, FALSE) >> ELSE <<>>)
    \o << Attempt(sp.file \o ext, sp.postfix, FALSE) >>

RECURSIVE AllExtAttempts(_, _, _, _)
AllExtAttempts(fsPath, sp, exts, i) ==
  IF i > Len(exts) THEN <<>>
  ELSE ExtAttempts(fsPath, sp, exts[i]) \o AllExtAttempts(fsPath, sp, exts, i + 1)

\* A mutant: the directories are probed before the extensions.
FsAttemptsDirectoriesFirst(fsPath, exts, tryIndex) ==
  LET sp == splitFileAndPostfix(fsPath)
      literal(ti) == IF sp.postfix # <<>> THEN << Attempt(fsPath, <<>>, ti) >> ELSE <<>>
  IN literal(FALSE)
       \o << Attempt(sp.file, sp.postfix, FALSE) >>
       \o literal(tryIndex)
       \o << Attempt(sp.file, sp.postfix, tryIndex) >>
       \o AllExtAttempts(fsPath, sp, exts, 1)

\* Every probe of tryFsResolve, in the order the code makes them.
FsAttempts(fsPath, exts, tryIndex) ==
  LET sp == splitFileAndPostfix(fsPath)
      literal(ti) == IF sp.postfix # <<>> THEN << Attempt(fsPath, <<>>, ti) >> ELSE <<>>
  IN literal(FALSE)
       \o << Attempt(sp.file, sp.postfix, FALSE) >>
       \o AllExtAttempts(fsPath, sp, exts, 1)
       \o literal(tryIndex)
       \o << Attempt(sp.file, sp.postfix, tryIndex) >>

RECURSIVE tryFsResolve(_, _, _, _, _, _)
RECURSIVE TryAttempts(_, _, _, _, _)
RECURSIVE TryAttemptsNext(_, _, _, _, _)
RECURSIVE tryResolveFile(_, _, _, _, _, _, _, _, _)
RECURSIVE tryResolveFileIndex(_, _, _, _, _, _, _, _, _)
RECURSIVE tryResolveFileIndexNext(_, _, _, _, _, _, _, _, _)
RECURSIVE tryResolveFileFallback(_, _, _, _, _, _, _, _, _)
RECURSIVE TryTsSrcPaths(_, _, _, _, _, _, _, _, _, _)
RECURSIVE TryTsSrcPathsNext(_, _, _, _, _, _, _, _, _, _)
RECURSIVE resolvePackageEntry(_, _, _, _, _, _, _, _)
RECURSIVE SelectEntryPoint(_, _, _, _, _, _)
RECURSIVE TryEntryPoints(_, _, _, _, _, _, _, _)
RECURSIVE TryEntryPointsNext(_, _, _, _, _, _, _, _)

tryFsResolve(fsPath, o, tryIndex, targetWeb, st, depth) ==
  TryAttempts(FsAttempts(fsPath, o.extensions, tryIndex), o, targetWeb, st, depth)

\* The probes of tryFsResolve from the first of `attempts` on.
TryAttempts(attempts, o, targetWeb, st, depth) ==
  IF attempts = <<>> THEN Ret(<<>>, st)
  ELSE TryAttemptsNext(
         tryResolveFile(attempts[1].file, attempts[1].postfix, o, attempts[1].tryIndex,
                        targetWeb, o.tryPrefix, st.skip, st, depth),
         attempts, o, targetWeb, depth)

\* `if ((res = tryResolveFile(...))) return res`, then the next probe.
TryAttemptsNext(r, attempts, o, targetWeb, depth) ==
  IF Failed(r) \/ r.val # <<>> THEN r
  ELSE TryAttempts(Tail(attempts), o, targetWeb, r.st, depth)

\* tryResolveFile (resolve.ts 472-528).
tryResolveFile(file, postfix, o, tryIndex, targetWeb, tryPrefix, skipPackageJson, st, depth) ==
  IF isFileReadable(file) /\ ~IsDirectory(file)
  THEN Ret(getRealPath(file) \o postfix, Io(st, IF o.preserveSymlinks THEN 2 ELSE 3))
  ELSE IF isFileReadable(file) /\ tryIndex
       THEN IF ~skipPackageJson /\ HasManifest(file)
            THEN [resolvePackageEntry(file, FsKey(file), loadPackageData(file), <<>>,
                                      targetWeb, o, Io(st, 3), depth)
                    EXCEPT !.wrote = FALSE]
            ELSE tryResolveFileIndex(file, postfix, o, tryIndex, targetWeb, tryPrefix,
                                     skipPackageJson,
                                     Io(st, IF skipPackageJson THEN 2 ELSE 3), depth)
       ELSE tryResolveFileFallback(file, postfix, o, tryIndex, targetWeb, tryPrefix,
                                   skipPackageJson,
                                   Io(st, IF isFileReadable(file) THEN 2 ELSE 1), depth)

\* resolve.ts 501-502: the index file of a directory.
tryResolveFileIndex(file, postfix, o, tryIndex, targetWeb, tryPrefix, skipPackageJson, st, depth) ==
  tryResolveFileIndexNext(
    tryFsResolve(file \o <<"/", "i", "n", "d", "e", "x">>, o, TRUE, TRUE, st, depth),
    file, postfix, o, tryIndex, targetWeb, tryPrefix, skipPackageJson, depth)

tryResolveFileIndexNext(r, file, postfix, o, tryIndex, targetWeb, tryPrefix, skipPackageJson, depth) ==
  IF Failed(r) THEN r
  ELSE IF r.val # <<>> THEN Ret(r.val \o postfix, r.st)
  ELSE tryResolveFileFallback(file, postfix, o, tryIndex, targetWeb, tryPrefix,
                              skipPackageJson, r.st, depth)

\* resolve.ts 506-527: the TypeScript source of a compiled file, or the
\* prefixed file.
tryResolveFileFallback(file, postfix, o, tryIndex, targetWeb, tryPrefix, skipPackageJson, st, depth) ==
  IF o.isFromTsImporter /\ isPossibleTsOutput(file)
  THEN TryTsSrcPaths(getPotentialTsSrcPaths(file), 1, postfix, o, tryIndex,
                     targetWeb, tryPrefix, skipPackageJson, st, depth)
  ELSE IF tryPrefix # <<>>
       THEN tryResolveFile(dirname(file) \o <<"/">> \o tryPrefix \o basename(file),
                           postfix, o, tryIndex, targetWeb, <<>>, FALSE, st, depth)
       ELSE Ret(<<>>, st)

TryTsSrcPaths(tsSrcPaths, i, postfix, o, tryIndex, targetWeb, tryPrefix, skipPackageJson, st, depth) ==
  IF i > Len(tsSrcPaths) THEN Ret(<<>>, st)
  ELSE TryTsSrcPathsNext(
         tryResolveFile(tsSrcPaths[i], postfix, o, tryIndex, targetWeb,
                        tryPrefix, skipPackageJson, st, depth),
         tsSrcPaths, i, postfix, o, tryIndex, targetWeb, tryPrefix, skipPackageJson, depth)

TryTsSrcPathsNext(r, tsSrcPaths, i, postfix, o, tryIndex, targetWeb, tryPrefix, skipPackageJson, depth) ==
  IF Failed(r) \/ r.val # <<>> THEN r
  ELSE TryTsSrcPaths(tsSrcPaths, i + 1, postfix, o, tryIndex, targetWeb,
                     tryPrefix, skipPackageJson, r.st, depth)

\* browserEntry of resolve.ts 791-794.
BrowserEntry(data) ==
  IF data.browser.t = "string" THEN data.browser.s
  ELSE IF data.browser.t = "object"
       THEN LET dot == {i \in 1..Len(data.browser.map) : data.browser.map[i].key = <<".">>}
            IN IF dot = {} THEN <<>>
               ELSE LET to == data.browser.map[CHOOSE i \in dot : TRUE].to
                    IN IF Truthy(to) THEN to.s ELSE <<>>
       ELSE <<>>

\* The first string-valued main field (resolve.ts 830-835).
RECURSIVE FirstMainField(_, _, _)
FirstMainField(data, mainFields, i) ==
  IF i > Len(mainFields) THEN <<>>
  ELSE IF StringField(data, mainFields[i]) # <<>> THEN StringField(data, mainFields[i])
  ELSE FirstMainField(data, mainFields, i + 1)

UnsetOrMjs(entryPoint) == entryPoint = <<>> \/ EndsWith(entryPoint, <<".", "m", "j", "s">>)

\* resolve.ts 780-782: the entry the exports field gives, '' when none.
EntryFromExports(data, o, targetWeb) ==
  IF data.exports.t = "none" THEN <<>>
  ELSE IF resolveExports(data, <<".">>, o, targetWeb).t = "string"
       THEN resolveExports(data, <<".">>, o, targetWeb).s
       ELSE <<>>

\* resolve.ts 829-837: the main fields, then data.main.
SelectFromMainFields(entryPoint, data, o) ==
  IF UnsetOrMjs(entryPoint) /\ FirstMainField(data, o.mainFields, 1) # <<>>
  THEN FirstMainField(data, o.mainFields, 1)
  ELSE IF entryPoint # <<>> THEN entryPoint
  ELSE StringField(data, "main")

\* resolve.ts 812-822: the browser entry was probed; a UMD or CJS browser build
\* gives way to data.module, any other leaves entryPoint as it was.
UmdHeuristic(probe, entryPoint, data, o) ==
  IF Failed(probe) THEN probe
  ELSE IF probe.val = <<>> THEN Ret(SelectFromMainFields(entryPoint, data, o), probe.st)
  ELSE Ret(SelectFromMainFields(IF probe.val \in fsys.umd
                                THEN StringField(data, "module") ELSE entryPoint,
                                data, o),
           Io(probe.st, 1))

\* resolve.ts 788-827, with the entry from exports.
SelectFromBrowser(entryPoint, dir, data, targetWeb, o, st, depth) ==
  IF targetWeb /\ UnsetOrMjs(entryPoint) /\ BrowserEntry(data) # <<>>
  THEN IF ~o.isRequire /\ StringField(data, "module") # <<>>
            /\ StringField(data, "module") # BrowserEntry(data)
       THEN UmdHeuristic(tryFsResolve(PathJoin(dir, BrowserEntry(data)), o, TRUE, TRUE,
                                      st, depth),
                         entryPoint, data, o)
       ELSE Ret(SelectFromMainFields(BrowserEntry(data), data, o), st)
  ELSE Ret(SelectFromMainFields(entryPoint, data, o), st)

\* resolve.ts 776-837: the entry resolvePackageEntry selects before it probes.
SelectEntryPoint(dir, data, targetWeb, o, st, depth) ==
  SelectFromBrowser(EntryFromExports(data, o, targetWeb), dir, data, targetWeb, o, st, depth)

\* resolve.ts 846-859: the entry probed for a candidate.
ProbedEntry(entry, data, targetWeb) ==
  IF targetWeb /\ data.browser.t = "object"
       /\ Truthy(mapWithBrowserField(entry, data.browser.map))
  THEN mapWithBrowserField(entry, data.browser.map).s
  ELSE entry

\* resolve.ts 847-850: a script entry when looking for sass.
IsScriptForSass(entry, o) ==
  /\ o.mainFields # <<>> /\ o.mainFields[1] = "sass"
  /\ ~\E k \in 1..Len(o.extensions) : o.extensions[k] = PathExtname(entry)

\* The loop of resolve.ts 845-873 over the candidate entries.
TryEntryPoints(entryPoints, i, dir, data, targetWeb, o, st, depth) ==
  IF i > Len(entryPoints) THEN Ret(<<>>, st)
  ELSE TryEntryPointsNext(
         tryFsResolve(PathJoin(dir, ProbedEntry(IF IsScriptForSass(entryPoints[i], o)
                                                THEN <<>> ELSE entryPoints[i],
                                                data, targetWeb)),
                      o, TRUE, TRUE,
                      IF IsScriptForSass(entryPoints[i], o) THEN [st EXCEPT !.skip = TRUE]
                      ELSE st,
                      depth),
         entryPoints, i, dir, data, targetWeb, o, depth)

TryEntryPointsNext(r, entryPoints, i, dir, data, targetWeb, o, depth) ==
  IF Failed(r) THEN r
  ELSE IF r.val # <<>> THEN [r EXCEPT !.wrote = TRUE]
  ELSE TryEntryPoints(entryPoints, i + 1, dir, data, targetWeb, o, r.st, depth)

DefaultEntryPoints == << <<"i", "n", "d", "e", "x", ".", "j", "s">>, <<"i", "n", "d", "e", "x", ".", "j", "s", "o", "n">>, <<"i", "n", "d", "e", "x", ".", "n", "o", "d", "e">> >>

\* resolve.ts 841-873 with the selected entry.
TryEntryPointsOf(sel, dir, data, targetWeb, o, depth) ==
  IF Failed(sel) THEN sel
  ELSE TryEntryPoints(IF sel.val # <<>> THEN << sel.val >> ELSE DefaultEntryPoints,
                      1, dir, data, targetWeb, o, sel.st, depth)

\* resolve.ts 874-877: an exception or no resolved entry is an entry failure.
EntryOutcome(id, r) ==
  IF Failed(r) THEN Throw(packageEntryFailure(id, Message(r.err)), r.st)
  ELSE IF r.val # <<>> THEN r
  ELSE Throw(packageEntryFailure(id, <<>>), r.st)

\* resolvePackageEntry (resolve.ts 765-878); cached is getResolvedCache('.', targetWeb).
resolvePackageEntry(id, dir, data, cached, targetWeb, o, st, depth) ==
  IF cached # <<>> THEN Ret(cached, st)
  ELSE IF depth >= MaxCallDepth THEN Throw(RangeError, [st EXCEPT !.ovf = TRUE])
  ELSE EntryOutcome(id,
         TryEntryPointsOf(SelectEntryPoint(dir, data, targetWeb, o, st, depth + 1),
                          dir, data, targetWeb, o, depth + 1))


\* special id for paths marked with browser: false (resolve.ts 43).
browserExternalId == <<"_", "_", "v", "i", "t", "e", "-", "b", "r", "o", "w", "s", "e", "r", "-", "e", "x", "t", "e", "r", "n", "a", "l">>

\* The text `${relativeId}` interpolates into a message.
Interpolate(v) == IF v.t = "undefined" THEN <<"u", "n", "d", "e", "f", "i", "n", "e", "d">>
                  ELSE IF v.t = "false" THEN <<"f", "a", "l", "s", "e">> ELSE v.s

\* The error of resolve.ts 945-948: a is the subpath the message names, b the
\* manifest path.
subpathNotDefined(relativeId, dir) ==
  [kind |-> "subpath", a |-> Interpolate(relativeId), b |-> PathJoin(dir, <<"p", "a", "c", "k", "a", "g", "e", ".", "j", "s", "o", "n">>)]

\* resolve.ts 926-959: relativeId after the exports field or the browser map
\* was applied; false stands for a subpath the browser map externalizes.
DeepRelativeId(id, data, targetWeb, o) ==
  IF data.exports.t # "none"
  THEN IF data.exports.t = "object"
            /\ resolveExports(data, splitFileAndPostfix(id).file, o, targetWeb).t # "undefined"
       THEN Str(resolveExports(data, splitFileAndPostfix(id).file, o, targetWeb).s
                  \o splitFileAndPostfix(id).postfix)
       ELSE Undefined
  ELSE IF targetWeb /\ data.browser.t = "object"
       THEN IF Truthy(mapWithBrowserField(splitFileAndPostfix(id).file, data.browser.map))
            THEN Str(mapWithBrowserField(splitFileAndPostfix(id).file, data.browser.map).s
                       \o splitFileAndPostfix(id).postfix)
            ELSE IF mapWithBrowserField(splitFileAndPostfix(id).file, data.browser.map).t = "false"
                 THEN False
                 ELSE Str(id)
       ELSE Str(id)

\* resolve.ts 968-975: a resolved deep import is stored in the resolved cache.
DeepImportOutcome(r) ==
  IF ~Failed(r) /\ r.val # <<>> THEN [r EXCEPT !.wrote = TRUE] ELSE r

\* resolve.ts 944-976 with relativeId.
ResolveRelativeId(relativeId, dir, data, targetWeb, o, st) ==
  IF data.exports.t # "none" /\ ~Truthy(relativeId)
  THEN Throw(subpathNotDefined(relativeId, dir), st)
  ELSE IF relativeId.t = "false" THEN [Ret(browserExternalId, st) EXCEPT !.wrote = TRUE]
  ELSE IF ~Truthy(relativeId) THEN Ret(<<>>, st)
  ELSE DeepImportOutcome(tryFsResolve(PathJoin(dir, relativeId.s), o,
                                      data.exports.t = "none", targetWeb, st, 0))

\* resolveDeepImport past its cache lookup (resolve.ts 926-977).
resolveDeepImportMiss(id, dir, data, targetWeb, o, st) ==
  ResolveRelativeId(DeepRelativeId(id, data, targetWeb, o), dir, data, targetWeb, o, st)

\* A mutant: the resolved cache is not consulted.
resolveDeepImportUncached(id, dir, data, cached, targetWeb, o, st) ==
  resolveDeepImportMiss(id, dir, data, targetWeb, o, st)

\* resolveDeepImport (resolve.ts 909-977); cached is getResolvedCache(id, targetWeb).
resolveDeepImport(id, dir, data, cached, targetWeb, o, st) ==
  IF cached # <<>> THEN Ret(cached, st)
  ELSE resolveDeepImportMiss(id, dir, data, targetWeb, o, st)

(***************************************************************************)
(* PackageData of ../packages: the per-package memo of resolved subpaths,  *)
(* partitioned by targetWeb.                                               *)
(***************************************************************************)
MapGet(m, k) == IF k \in DOMAIN m THEN m[k] ELSE <<>>

MapSet(m, k, v) == [x \in DOMAIN m \cup {k} |-> IF x = k THEN v ELSE m[x]]

EmptyMap == [x \in {} |-> <<>>]

getResolvedCache(web, node, dir, key, targetWeb) ==
  MapGet((IF targetWeb THEN web ELSE node)[dir], key)

\* webResolvedImports after setResolvedCache(key, value, targetWeb).
setResolvedCacheWeb(web, dir, key, value, targetWeb) ==
  IF targetWeb THEN [web EXCEPT ![dir] = MapSet(@, key, value)] ELSE web

\* nodeResolvedImports after setResolvedCache(key, value, targetWeb).
setResolvedCacheNode(node, dir, key, value, targetWeb) ==
  IF targetWeb THEN node ELSE [node EXCEPT ![dir] = MapSet(@, key, value)]


(***************************************************************************)
(* The project the model resolves in: root /p with the package foo in      *)
(* /p/node_modules/foo.  Which of foo's files exist, whether its browser   *)
(* build is UMD, and what its package.json says are chosen initially.      *)
(***************************************************************************)
Root == <<"/", "p">>
NodeModulesDir == <<"/", "p", "/", "n", "o", "d", "e", "_", "m", "o", "d", "u", "l", "e", "s">>
FooDir == <<"/", "p", "/", "n", "o", "d", "e", "_", "m", "o", "d", "u", "l", "e", "s", "/", "f", "o", "o">>
FooLibDir == <<"/", "p", "/", "n", "o", "d", "e", "_", "m", "o", "d", "u", "l", "e", "s", "/", "f", "o", "o", "/", "l", "i", "b">>
FooManifestPath == <<"/", "p", "/", "n", "o", "d", "e", "_", "m", "o", "d", "u", "l", "e", "s", "/", "f", "o", "o", "/", "p", "a", "c", "k", "a", "g", "e", ".", "j", "s", "o", "n">>
FooBrowserFile == <<"/", "p", "/", "n", "o", "d", "e", "_", "m", "o", "d", "u", "l", "e", "s", "/", "f", "o", "o", "/", "f", "o", "o", ".", "b", "r", "o", "w", "s", "e", "r", ".", "j", "s">>

FooFiles ==
  { <<"/", "p", "/", "n", "o", "d", "e", "_", "m", "o", "d", "u", "l", "e", "s", "/", "f", "o", "o", "/", "f", "o", "o", ".", "c", "j", "s">>,
    <<"/", "p", "/", "n", "o", "d", "e", "_", "m", "o", "d", "u", "l", "e", "s", "/", "f", "o", "o", "/", "f", "o", "o", ".", "m", "j", "s">>,
    FooBrowserFile,
    <<"/", "p", "/", "n", "o", "d", "e", "_", "m", "o", "d", "u", "l", "e", "s", "/", "f", "o", "o", "/", "i", "n", "d", "e", "x", ".", "j", "s">>,
    <<"/", "p", "/", "n", "o", "d", "e", "_", "m", "o", "d", "u", "l", "e", "s", "/", "f", "o", "o", "/", "l", "i", "b", "/", "s", "u", "b", ".", "j", "s">> }

NoFields == [x \in {} |-> <<>>]

Manifest(fields, browser, exports) ==
  [fields |-> fields, browser |-> browser, exports |-> exports]

Target(cond, to) == [cond |-> cond, to |-> to]

\* A package with conditional exports.
ConditionalExportsManifest ==
  Manifest([main |-> <<"f", "o", "o", ".", "c", "j", "s">>], NoBrowser,
           ExportsObject(<< [key |-> <<".">>,
                             targets |-> << Target("import", <<".", "/", "f", "o", "o", ".", "m", "j", "s">>),
                                            Target("require", <<".", "/", "f", "o", "o", ".", "c", "j", "s">>) >>],
                            [key |-> <<".", "/", "s", "u", "b">>,
                             targets |-> << Target("default", <<".", "/", "l", "i", "b", "/", "s", "u", "b", ".", "j", "s">>) >>] >>))

\* A package with a browser map.
BrowserMapManifest ==
  Manifest([main |-> <<"i", "n", "d", "e", "x", ".", "j", "s">>],
           BrowserObject(<< [key |-> <<".", "/", "l", "i", "b", "/", "s", "u", "b", ".", "j", "s">>, to |-> False],
                            [key |-> <<".", "/", "i", "n", "d", "e", "x", ".", "j", "s">>, to |-> Str(<<".", "/", "f", "o", "o", ".", "b", "r", "o", "w", "s", "e", "r", ".", "j", "s">>)],
                            [key |-> <<"f", "s">>, to |-> False],
                            [key |-> <<"b", "a", "r">>, to |-> Str(<<".", "/", "l", "i", "b", "/", "s", "u", "b", ".", "j", "s">>)] >>),
           NoExports)

\* A package whose entry does not exist.
MissingMainManifest == Manifest([main |-> <<"m", "i", "s", "s", "i", "n", "g", ".", "j", "s">>], NoBrowser, NoExports)

FooManifests ==
  { \* main, module and a browser build
    Manifest([main |-> <<"f", "o", "o", ".", "c", "j", "s">>, module |-> <<"f", "o", "o", ".", "m", "j", "s">>],
             BrowserString(<<"f", "o", "o", ".", "b", "r", "o", "w", "s", "e", "r", ".", "j", "s">>), NoExports),
    \* an entry that designates the package directory itself
    Manifest([main |-> <<".">>], NoBrowser, NoExports),
    Manifest([main |-> <<".", "/">>], NoBrowser, NoExports),
    ConditionalExportsManifest,
    \* exports that is not an object
    Manifest(NoFields, NoBrowser, ExportsString(<<".", "/", "f", "o", "o", ".", "m", "j", "s">>)),
    BrowserMapManifest,
    MissingMainManifest,
    \* no entry at all: the defaults apply
    Manifest(NoFields, NoBrowser, NoExports) }

\* The filesystem with the files `present` of foo, the UMD files umd and foo's manifest.
MakeFs(present, umd, manifest) ==
  [files |-> present \cup {FooManifestPath},
   dirs |-> {<<"/">>, Root, NodeModulesDir, FooDir, FooLibDir},
   umd |-> umd,
   manifests |-> [d \in {FooDir} |-> manifest]]

\* The files of foo that a world may lack.
OptionalFooFiles ==
  { <<"/", "p", "/", "n", "o", "d", "e", "_", "m", "o", "d", "u", "l", "e", "s", "/", "f", "o", "o", "/", "f", "o", "o", ".", "m", "j", "s">>,
    FooBrowserFile }

PkgWorlds ==
  UNION { { MakeFs((FooFiles \ OptionalFooFiles) \cup present, umd, manifest) :
              umd \in SUBSET ({FooBrowserFile} \cap present),
              manifest \in FooManifests } :
          present \in SUBSET OptionalFooFiles }

\* The directories PackageData handles exist for.
PkgDirs == {FooDir}

NoCache == [d \in PkgDirs |-> EmptyMap]

\* The options of a call that the entry-point and deep-import resolvers read.
Options(isRequire, mainFields) ==
  [isRequire |-> isRequire,
   isProduction |-> FALSE,
   mainFields |-> mainFields,
   extensions |-> DEFAULT_EXTENSIONS,
   conditions |-> {},
   tryPrefix |-> <<>>,
   isFromTsImporter |-> FALSE,
   preserveSymlinks |-> FALSE]

NoCall ==
  [n |-> 0, fn |-> "none", key |-> <<>>, targetWeb |-> FALSE, o |-> Options(FALSE, <<>>),
   val |-> <<>>, err |-> NoErr, io |-> 0, ovf |-> FALSE, wrote |-> FALSE,
   entry |-> <<>>, hit |-> FALSE]

\* The record of a finished call: its arguments and what it did; n counts the
\* calls made so far.
Called(fn, key, targetWeb, o, r, entry, hit) ==
  [n |-> last.n + 1, fn |-> fn, key |-> key, targetWeb |-> targetWeb, o |-> o,
   val |-> r.val, err |-> r.err, io |-> r.st.io, ovf |-> r.st.ovf, wrote |-> r.wrote,
   entry |-> entry, hit |-> hit]

MainFieldChoices == { DEFAULT_MAIN_FIELDS, <<"main">> }

Subpaths == { <<".", "/", "s", "u", "b">>, <<".", "/", "l", "i", "b", "/", "s", "u", "b", ".", "j", "s">>, <<".", "/", "o", "t", "h", "e", "r">>, <<".", "/", "l", "i", "b", "/", "s", "u", "b", ".", "j", "s", "?", "x">> }

ProbedPaths == { FooDir, <<"/", "p", "/", "n", "o", "d", "e", "_", "m", "o", "d", "u", "l", "e", "s", "/", "f", "o", "o", "/", "l", "i", "b", "/", "s", "u", "b">>, <<"/", "p", "/", "n", "o", "d", "e", "_", "m", "o", "d", "u", "l", "e", "s", "/", "f", "o", "o", "/", "f", "o", "o">> }

PureIdle ==
  /\ path = <<>> /\ split = NoSplit
  /\ nodeId = <<>> /\ possiblePkgIds = NoPkgIds

InitPkg ==
  /\ fsys \in PkgWorlds
  /\ webResolvedImports = NoCache
  /\ nodeResolvedImports = NoCache
  /\ last = NoCall
  /\ PureIdle
  /\ ResolverIdle

\* The end of a call on foo's PackageData: the call is recorded and a resolved
\* result is stored by setResolvedCache(key, r.val, targetWeb).
Finish(fn, key, targetWeb, o, r, entry, hit) ==
  /\ last' = Called(fn, key, targetWeb, o, r, entry, hit)
  /\ webResolvedImports' =
       IF r.wrote THEN setResolvedCacheWeb(webResolvedImports, FooDir, key, r.val, targetWeb)
       ELSE webResolvedImports
  /\ nodeResolvedImports' =
       IF r.wrote THEN setResolvedCacheNode(nodeResolvedImports, FooDir, key, r.val, targetWeb)
       ELSE nodeResolvedImports
  /\ UNCHANGED <<fsys, pureVars, resolverVars>>

\* The cache entry a call finds for key.
Cached(key, targetWeb) ==
  getResolvedCache(webResolvedImports, nodeResolvedImports, FooDir, key, targetWeb)

\* A call resolvePackageEntry('foo', pkg, targetWeb, options) on foo's PackageData.
CallResolvePackageEntry ==
  \E targetWeb \in BOOLEAN, isRequire \in BOOLEAN, mainFields \in MainFieldChoices :
    /\ last.n < MaxCalls
    /\ Finish("resolvePackageEntry", <<".">>, targetWeb, Options(isRequire, mainFields),
              resolvePackageEntry(<<"f", "o", "o">>, FooDir, loadPackageData(FooDir),
                                  Cached(<<".">>, targetWeb), targetWeb,
                                  Options(isRequire, mainFields), St0, 0),
              IF Cached(<<".">>, targetWeb) # <<>> THEN <<>>
              ELSE SelectEntryPoint(FooDir, loadPackageData(FooDir), targetWeb,
                                    Options(isRequire, mainFields), St0, 1).val,
              Cached(<<".">>, targetWeb) # <<>>)

\* A call resolveDeepImport(id, pkg, targetWeb, options) on foo's PackageData.
CallResolveDeepImport ==
  \E id \in Subpaths, targetWeb \in BOOLEAN :
    /\ last.n < MaxCalls
    /\ Finish("resolveDeepImport", id, targetWeb, Options(FALSE, DEFAULT_MAIN_FIELDS),
              resolveDeepImport(id, FooDir, loadPackageData(FooDir), Cached(id, targetWeb),
                                targetWeb, Options(FALSE, DEFAULT_MAIN_FIELDS), St0),
              <<>>, Cached(id, targetWeb) # <<>>)

\* A call tryFsResolve(fsPath, options).
CallTryFsResolve ==
  \E fsPath \in ProbedPaths :
    /\ last.n < MaxCalls
    /\ Finish("tryFsResolve", fsPath, TRUE, Options(FALSE, DEFAULT_MAIN_FIELDS),
              tryFsResolve(fsPath, Options(FALSE, DEFAULT_MAIN_FIELDS), TRUE, TRUE, St0, 0),
              <<>>, FALSE)

NextPkg ==
  \/ CallResolvePackageEntry
  \/ CallResolveDeepImport
  \/ CallTryFsResolve

SpecPkg == InitPkg /\ [][NextPkg]_vars

(***************************************************************************)
(* resolveId: the configuration of the plugin and its collaborators.       *)
(*                                                                         *)
(* conf is the configuration the plugin was created with, calls the        *)
(* resolveId calls the host made (a call that awaits the dependency scan   *)
(* stays at "await" until it is resumed), idToPkgMap the module-level map  *)
(* of resolve.ts 530, optimizer the dependency optimizer.                  *)
(***************************************************************************)
FS_PREFIX == <<"/", "@", "f", "s", "/">>

\* The characters `\w` matches.
WordChars ==
  { "a", "b", "c", "d", "e", "f", "g", "h", "i", "j", "k", "l", "m", "n", "o", "p", "q",
    "r", "s", "t", "u", "v", "w", "x", "y", "z", "0", "1", "2", "3", "4", "5", "6", "7",
    "8", "9", "_" }

\* cleanUrl of ../utils: the url without its query and hash.
cleanUrl(url) ==
  LET q == IndexOf(url, "?")
      h == IndexOf(url, "#")
  IN IF q < 0 /\ h < 0 THEN url
     ELSE IF q < 0 THEN Slice(url, 0, h)
     ELSE IF h < 0 THEN Slice(url, 0, q)
     ELSE Slice(url, 0, IF q < h THEN q ELSE h)

\* fsPathFromId of ../utils: the normalized path behind '/@fs/', with a leading '/'.
fsPathFromId(id) ==
  LET fsPath == PosixNormalize(IF StartsWith(id, FS_PREFIX) THEN SliceFrom(id, Len(FS_PREFIX)) ELSE id)
  IN IF StartsWith(fsPath, <<"/">>) THEN fsPath ELSE <<"/">> \o fsPath

\* isBuiltin of ../utils, for the built-in modules fs and path.
isBuiltin(id) ==
  (IF StartsWith(id, <<"n", "o", "d", "e", ":">>) THEN SliceFrom(id, 5) ELSE id) \in { <<"f", "s">>, <<"p", "a", "t", "h">> }

\* bareImportRE of ../utils: /^[\w@][^:]/.
IsBareImport(id) ==
  Len(id) >= 2 /\ id[1] \in WordChars \cup {"@"} /\ id[2] # ":"

\* injectQuery of ../utils for a url without a hash.
injectQuery(url, query) ==
  LET q == IndexOf(url, "?")
  IN IF q < 0 THEN url \o <<"?">> \o query
     ELSE Slice(url, 0, q) \o <<"?">> \o query \o <<"&">> \o SliceFrom(url, q + 1)

\* The longest of a set of strings; '' when the set is empty.
LongestOf(S) ==
  IF S = {} THEN <<>> ELSE CHOOSE d \in S : \A e \in S : Len(e) <= Len(d)

\* resolvePackageData of ../packages: the directory of the package pkgId that
\* is nearest to basedir in the node_modules directories of basedir and of its
\* ancestors; '' when there is none.
resolvePackageData(pkgId, basedir) ==
  LongestOf({ d \in { FsKey(PathJoin(Slice(basedir, 0, k), <<"n", "o", "d", "e", "_", "m", "o", "d", "u", "l", "e", "s", "/">> \o pkgId)) :
                        k \in { j \in 1..Len(basedir) :
                                  j = 1 \/ j = Len(basedir) \/ basedir[j + 1] = "/" } } :
                d \in DOMAIN fsys.manifests })

\* nestedResolveFrom (resolve.ts 594): the package directories of
\* 'foo > bar' followed from basedir; a package that is not found is skipped.
RECURSIVE nestedResolveFrom(_, _)
nestedResolveFrom(nestedRoot, basedir) ==
  IF nestedRoot = <<>> THEN basedir
  ELSE LET arrow == IndexOf(nestedRoot, ">")
           dir == resolvePackageData(
                    Trim(IF arrow < 0 THEN nestedRoot ELSE Slice(nestedRoot, 0, arrow)), basedir)
       IN nestedResolveFrom(IF arrow < 0 THEN <<>> ELSE SliceFrom(nestedRoot, arrow + 1),
                            IF dir = <<>> THEN basedir ELSE dir)

\* The dependency optimizer: its cache directory, the query that carries its
\* browserHash, the file of an optimized dependency and getOptimizedDepId.
DepsCacheDir == <<"/", "p", "/", "n", "o", "d", "e", "_", "m", "o", "d", "u", "l", "e", "s", "/", ".", "v", "i", "t", "e", "/", "d", "e", "p", "s">>

browserHashQuery == <<"v", "=", "h">>

\* depInfo.file: flattenId replaces the '/' of the id by '_'.
OptimizedDepFile(id) ==
  DepsCacheDir \o <<"/">> \o [i \in 1..Len(id) |-> IF id[i] = "/" THEN "_" ELSE id[i]] \o <<".", "j", "s">>

OptimizedDepId(id) == OptimizedDepFile(id) \o <<"?">> \o browserHashQuery

\* The plugin's configuration (resolve.ts 84-97 and InternalResolveOptions
\* 58-82); external is the set of ids shouldExternalize accepts.
Config(mode, hasOptimizer, ssrNoExternal, external, ssrTarget) ==
  [asSrc |-> mode = "dev", isProduction |-> mode = "build", isBuild |-> mode = "build",
   hasOptimizer |-> hasOptimizer, ssrNoExternal |-> ssrNoExternal,
   external |-> external, ssrTarget |-> ssrTarget,
   preferRelative |-> FALSE, dedupe |-> {}, tryEsmOnly |-> FALSE, scan |-> FALSE,
   exclude |-> {}]

\* What resolveId returns: undefined, null, a string or { id, external }.
NoRes == [t |-> "undefined", id |-> <<>>, external |-> FALSE]
StrRes(id) == [t |-> "string", id |-> id, external |-> FALSE]
RecRes(id, external) == [t |-> "record", id |-> id, external |-> external]

\* Where a resolveId call stands: still running (no branch returned yet),
\* awaiting the scan, or done with a result or an exception; via names the
\* branch that ended it, s is the module state it leaves.
Pending(s) == [pc |-> "run", via |-> "", res |-> NoRes, err |-> NoErr, s |-> s]
Return(via, res, s) == [pc |-> "done", via |-> via, res |-> res, err |-> NoErr, s |-> s]
Raise(via, err, s) == [pc |-> "done", via |-> via, res |-> NoRes, err |-> err, s |-> s]

\* `if ((res = tryFsResolve(...))) return ...` of resolveId and of
\* tryResolveBrowserMapping: r is the probe's outcome; a file found for an
\* importer of the package pkgDir is linked to it and returned as a record;
\* orElse is what is returned when nothing is found ('' to go on).
ProbeOutcome(r, via, s, pkgDir, external, orElse) ==
  IF Failed(r) THEN Raise(via, r.err, [s EXCEPT !.st = r.st])
  ELSE IF r.val # <<>>
       THEN IF pkgDir # <<>>
            THEN Return(via, RecRes(r.val, external),
                        [s EXCEPT !.st = r.st, !.ids = MapSet(@, r.val, pkgDir)])
            ELSE Return(via, StrRes(r.val), [s EXCEPT !.st = r.st])
       ELSE IF orElse # <<>> THEN Return(via, StrRes(orElse), [s EXCEPT !.st = r.st])
       ELSE Pending([s EXCEPT !.st = r.st])

\* targetWeb of a call (resolve.ts 119).
TargetWeb(c) == ~c.ssr \/ conf.ssrTarget = "webworker"

\* options of a call (resolve.ts 125-138); the host knows no module language.
OptionsOf(c) ==
  [Options(c.isRequire, DEFAULT_MAIN_FIELDS) EXCEPT
     !.isProduction = conf.isProduction,
     !.isFromTsImporter =
        /\ c.importer # <<>>
        /\ \E ext \in { <<".", "t", "s">>, <<".", "m", "t", "s">>, <<".", "c", "t", "s">>, <<".", "t", "s", "x">> } : EndsWith(cleanUrl(c.importer), ext)]

\* options.shouldExternalize?.(id) (resolve.ts 263).
External(c) == c.id \in conf.external

\* tryResolveBrowserMapping (resolve.ts 979-1007).
tryResolveBrowserMapping(id, importer, isFilePath, externalize, o, s) ==
  LET pkgDir == IF importer = <<>> THEN <<>> ELSE MapGet(s.ids, importer)
      mapped == mapWithBrowserField(
                  IF isFilePath THEN <<".", "/">> \o PathRelative(pkgDir, id) ELSE id,
                  loadPackageData(pkgDir).browser.map)
  IN IF pkgDir = <<>> \/ loadPackageData(pkgDir).browser.t # "object" THEN Pending(s)
     ELSE IF Truthy(mapped)
          THEN ProbeOutcome(tryFsResolve(PathJoin(pkgDir, mapped.s), o, TRUE, TRUE, s.st, 0),
                            "browser-map", s, pkgDir, externalize, <<>>)
          ELSE IF mapped.t = "false" THEN Return("browser-map", StrRes(browserExternalId), s)
          ELSE Pending(s)

\* A mutant: the resolved path is returned as the id of an external module.
processResultKeepResolved(resolved, id, isDeepImport, hasExports, externalize) ==
  RecRes(resolved, externalize)

\* processResult (resolve.ts 635-652); undefined is NoRes.
processResult(resolved, id, isDeepImport, hasExports, externalize) ==
  IF ~externalize THEN RecRes(resolved, FALSE)
  ELSE IF /\ isDeepImport
          /\ PathExtname(resolved) # <<>>
          /\ ~(Len(resolved) >= 3 /\ EndsWith(resolved, <<"j", "s">>))
       THEN NoRes
       ELSE RecRes(IF isDeepImport /\ ~hasExports /\ PathExtname(id) # PathExtname(resolved)
                   THEN id \o PathExtname(resolved)
                   ELSE id,
                   TRUE)

\* resolve.ts 631-711: r is what the package resolved to.
NodeResolved(r, n) ==
  LET key == IF n.isDeepImport THEN n.unresolvedId ELSE <<".">>
      s1 == [n.s EXCEPT
               !.st = r.st,
               !.web = IF r.wrote THEN setResolvedCacheWeb(@, n.dir, key, r.val, n.targetWeb) ELSE @,
               !.node = IF r.wrote THEN setResolvedCacheNode(@, n.dir, key, r.val, n.targetWeb) ELSE @]
      s2 == [s1 EXCEPT !.ids = MapSet(@, r.val, n.dir)]
      processed == processResult(r.val, n.id, n.isDeepImport,
                                 loadPackageData(n.dir).exports.t # "none", n.externalize)
      isJsType == \E ext \in { <<".", "j", "s">>, <<".", "m", "j", "s">>, <<".", "t", "s">> } : EndsWith(r.val, ext)
      special == \E q \in { <<"w", "o", "r", "k", "e", "r">>, <<"s", "h", "a", "r", "e", "d", "w", "o", "r", "k", "e", "r">>, <<"r", "a", "w">>, <<"u", "r", "l">> } :
                   Includes(r.val, <<"?">> \o q) \/ Includes(r.val, <<"&">> \o q)
      excluded == \/ ~isJsType
                  \/ Includes(n.importer, <<"n", "o", "d", "e", "_", "m", "o", "d", "u", "l", "e", "s">>)
                  \/ n.pkgId \in conf.exclude
                  \/ nestedPathOf(n.id) \in conf.exclude
                  \/ special
                  \/ (~conf.isBuild /\ n.ssr)
  IN IF Failed(r) THEN Raise("node", r.err, s1)
     ELSE IF r.val = <<>> THEN Pending(s1)
     ELSE IF (conf.isBuild /\ ~conf.hasOptimizer) \/ n.externalize
          THEN IF processed.t = "undefined" THEN Pending(s2) ELSE Return("node", processed, s2)
     ELSE IF ~Includes(r.val, <<"n", "o", "d", "e", "_", "m", "o", "d", "u", "l", "e", "s">>) \/ ~conf.hasOptimizer \/ conf.scan
          THEN Return("node", RecRes(r.val, FALSE), s2)
     ELSE IF excluded
          THEN Return("node",
                      RecRes(IF ~conf.isBuild /\ isJsType
                             THEN injectQuery(r.val, browserHashQuery) ELSE r.val, FALSE),
                      s2)
          ELSE Return("node", RecRes(OptimizedDepId(n.id), FALSE),
                      [s2 EXCEPT !.deps = @ \cup {[id |-> n.id, src |-> r.val, ssr |-> n.ssr]}])

RECURSIVE NodeAttempt(_, _, _, _)

\* resolve.ts 618-630: with tryEsmOnly, a resolution that failed is made once
\* more, as ESM.
NodeAttemptNext(r, n, o, retried) ==
  IF conf.tryEsmOnly /\ ~retried /\ (Failed(r) \/ r.val = <<>>)
  THEN NodeAttempt(n, [o EXCEPT !.isRequire = FALSE, !.mainFields = DEFAULT_MAIN_FIELDS,
                                !.extensions = DEFAULT_EXTENSIONS], r.st, TRUE)
  ELSE NodeResolved(r, n)

\* resolve.ts 607-617: resolvePackageEntry or resolveDeepImport on the package
\* n.dir, with the cache entry of its PackageData.
NodeAttempt(n, o, st, retried) ==
  NodeAttemptNext(
    IF n.isDeepImport
    THEN resolveDeepImport(n.unresolvedId, n.dir, loadPackageData(n.dir),
                           getResolvedCache(n.s.web, n.s.node, n.dir, n.unresolvedId, n.targetWeb),
                           n.targetWeb, o, st)
    ELSE resolvePackageEntry(n.unresolvedId, n.dir, loadPackageData(n.dir),
                             getResolvedCache(n.s.web, n.s.node, n.dir, <<".">>, n.targetWeb),
                             n.targetWeb, o, st, 0),
    n, o, retried)

\* A mutant: dedupe is not consulted.
StartBasedirIgnoringDedupe(id, importer) ==
  IF importer # <<>> /\ isAbsolute(importer) /\ isFileReadable(cleanUrl(importer))
  THEN dirname(importer)
  ELSE Root

\* resolve.ts 579-590: root for a deduped package, else the directory of an
\* importer that exists, else root.
StartBasedir(id, importer) ==
  IF /\ ~\E k \in 1..Len(possiblePkgIdsOf(id)) : possiblePkgIdsOf(id)[k] \in conf.dedupe
     /\ importer # <<>>
     /\ isAbsolute(importer)
     /\ isFileReadable(cleanUrl(importer))
  THEN dirname(importer)
  ELSE Root

\* resolve.ts 579-595: where the package lookup starts.
Basedir(id, importer) ==
  nestedResolveFrom(nestedRootOf(id), StartBasedir(id, importer))

\* resolve.ts 603-633: pkgId is the candidate that names a package ('' when
\* none does).
NodeResolveIn(pkgId, basedir, id, importer, targetWeb, ssr, externalize, o, s) ==
  IF pkgId = <<>> THEN Pending(s)
  ELSE NodeAttempt([id |-> id, importer |-> importer, targetWeb |-> targetWeb, ssr |-> ssr,
                    externalize |-> externalize, pkgId |-> pkgId,
                    dir |-> resolvePackageData(pkgId, basedir),
                    isDeepImport |-> pkgId # nestedPathOf(id),
                    unresolvedId |-> IF pkgId # nestedPathOf(id)
                                     THEN <<".">> \o SliceFrom(nestedPathOf(id), Len(pkgId))
                                     ELSE pkgId,
                    s |-> s],
                   o, s.st, FALSE)

\* tryNodeResolve (resolve.ts 532-712): the package is that of the longest
\* candidate id that names one; fs.existsSync(importer) is one filesystem call.
tryNodeResolve(id, importer, targetWeb, ssr, externalize, o, s) ==
  NodeResolveIn(LongestOf({ p \in { possiblePkgIdsOf(id)[k] : k \in 1..Len(possiblePkgIdsOf(id)) } :
                             resolvePackageData(p, Basedir(id, importer)) # <<>> }),
                Basedir(id, importer), id, importer, targetWeb, ssr, externalize, o,
                [s EXCEPT !.st = Io(@, IF /\ ~\E k \in 1..Len(possiblePkgIdsOf(id)) :
                                               possiblePkgIdsOf(id)[k] \in conf.dedupe
                                          /\ importer # <<>>
                                          /\ isAbsolute(importer)
                                       THEN 1 ELSE 0)])

\* tryOptimizedResolve past its await (resolve.ts 722-763); resolveFrom finds
\* what the package's main field names.
tryOptimizedResolve(c, s) ==
  LET nested == { d \in s.deps : d.ssr = c.ssr /\ EndsWith(d.id, c.id) }
      dir == resolvePackageData(c.id, dirname(c.importer))
      resolvedSrc == IF dir = <<>> THEN <<>>
                     ELSE PosixNormalize(PathJoin(dir, StringField(loadPackageData(dir), "main")))
  IN IF \E d \in s.deps : d.ssr = c.ssr /\ d.id = c.id
     THEN Return("optimized", StrRes(OptimizedDepId(c.id)), s)
     ELSE IF c.importer = <<>> \/ nested = {} \/ resolvedSrc = <<>> THEN Pending(s)
     ELSE IF \E d \in nested : d.src = resolvedSrc
          THEN Return("optimized",
                      StrRes(OptimizedDepId((CHOOSE d \in nested : d.src = resolvedSrc).id)), s)
          ELSE Pending(s)

(***************************************************************************)
(* resolveId (resolve.ts 103-336), branch by branch.  prev is where the    *)
(* call stands before a branch: a branch does nothing once an earlier one  *)
(* has ended the call.                                                     *)
(***************************************************************************)
\* resolve.ts 110-150: browser-external ids, commonjs proxies, optimized urls.
EarlyReturn(c, s) ==
  IF StartsWith(c.id, browserExternalId) THEN Return("browser-external", StrRes(c.id), s)
  ELSE IF Includes(c.id, <<"?", "c", "o", "m", "m", "o", "n", "j", "s">>) \/ c.id = <<"c", "o", "m", "m", "o", "n", "j", "s", "H", "e", "l", "p", "e", "r", "s", ".", "j", "s">>
       THEN Return("commonjs", NoRes, s)
  ELSE IF conf.asSrc /\ conf.hasOptimizer /\ StartsWith(c.id, <<"/", "n", "o", "d", "e", "_", "m", "o", "d", "u", "l", "e", "s", "/", ".", "v", "i", "t", "e", "/", "d", "e", "p", "s">>)
       THEN Return("optimized-url",
                   StrRes(IF StartsWith(c.id, FS_PREFIX) THEN fsPathFromId(c.id)
                          ELSE PosixNormalize(PathResolve(Root, SliceFrom(c.id, 1)))),
                   s)
  ELSE Pending(s)

\* resolve.ts 173-177: the condition of the relative branch.
IsRelative(c) ==
  \/ StartsWith(c.id, <<".">>)
  \/ (conf.preferRelative /\ c.id # <<>> /\ c.id[1] \in WordChars)
  \/ EndsWith(c.importer, <<".", "h", "t", "m", "l">>)

\* resolve.ts 178-179: fsPath of the relative branch; process.cwd() is root.
RelativeFsPath(c) ==
  PathResolve(IF c.importer # <<>> THEN dirname(c.importer) ELSE Root, c.id)

\* The branches that probe a path with tryFsResolve: '/@fs/' paths (resolve.ts
\* 153), urls (164), relative imports (173, 226) and absolute paths (242).
ProbeGuard(b, c) ==
  IF b = "fs" THEN conf.asSrc /\ StartsWith(c.id, FS_PREFIX)
  ELSE IF b = "url" THEN conf.asSrc /\ StartsWith(c.id, <<"/">>)
  ELSE IF b = "relative" THEN IsRelative(c)
  ELSE isAbsolute(c.id)

\* The path such a branch probes (resolve.ts 154, 165, 179, 242).
ProbePath(b, c) ==
  IF b = "fs" THEN fsPathFromId(c.id)
  ELSE IF b = "url" THEN PathResolve(Root, SliceFrom(c.id, 1))
  ELSE IF b = "relative" THEN RelativeFsPath(c)
  ELSE c.id

\* What such a branch returns when the probe finds nothing: `res || fsPath`
\* (resolve.ts 159) for '/@fs/', no return for the others.
ProbeFallback(b, c) == IF b = "fs" THEN fsPathFromId(c.id) ELSE <<>>

\* resolve.ts 184-197: an optimized file is returned with the browserHash.
RelativeFileStep(prev, c) ==
  LET file == PosixNormalize(RelativeFsPath(c))
  IN IF ~IsRelative(c) \/ ~(conf.hasOptimizer /\ StartsWith(file, DepsCacheDir)) THEN prev
     ELSE Return("optimized-file",
                 StrRes(IF /\ ~Includes(file, <<"?", "v", "=">>)
                           /\ ~Includes(file, <<"&", "v", "=">>)
                           /\ \E d \in prev.s.deps : d.ssr = c.ssr /\ OptimizedDepFile(d.id) = file
                        THEN injectQuery(file, browserHashQuery)
                        ELSE file),
                 prev.s)

\* resolve.ts 212-216: a relative import below node_modules is returned only
\* when what it resolved to lies below the imported path.
NodeAccepted(r, normalizedFsPath) ==
  IF r.pc = "done" /\ ~Failed(r) /\ ~StartsWith(r.res.id, normalizedFsPath)
  THEN Pending(r.s) ELSE r

\* resolve.ts 199-217 (a relative import below node_modules, made a bare
\* import) and 287-299 (a bare import).
NodeResolveStep(prev, c, relative) ==
  LET basedir == IF c.importer # <<>> THEN dirname(c.importer) ELSE Root
      pathFromBasedir == SliceFrom(PosixNormalize(RelativeFsPath(c)), Len(basedir))
  IN IF relative /\ ~(IsRelative(c) /\ StartsWith(pathFromBasedir, <<"/", "n", "o", "d", "e", "_", "m", "o", "d", "u", "l", "e", "s", "/">>)) THEN prev
     ELSE NodeAccepted(
            tryNodeResolve(IF relative THEN SliceFrom(pathFromBasedir, Len(<<"/", "n", "o", "d", "e", "_", "m", "o", "d", "u", "l", "e", "s", "/">>))
                           ELSE c.id,
                           c.importer, TargetWeb(c), c.ssr, ~relative /\ External(c),
                           OptionsOf(c), prev.s),
            IF relative THEN PosixNormalize(RelativeFsPath(c)) ELSE <<>>)

\* resolve.ts 219-224 (a file path) and 274-285 (a bare import).
BrowserMappingStep(prev, c, isFilePath) ==
  IF ~TargetWeb(c) \/ (isFilePath /\ ~IsRelative(c)) THEN prev
  ELSE tryResolveBrowserMapping(IF isFilePath THEN RelativeFsPath(c) ELSE c.id, c.importer,
                                isFilePath, ~isFilePath /\ External(c), OptionsOf(c), prev.s)

\* resolve.ts 248-270: external urls, data urls, and the start of the bare
\* branch, which awaits the scan of the optimizer.
BareStart(prev, c) ==
  IF \E p \in { <<"h", "t", "t", "p", ":", "/", "/">>, <<"h", "t", "t", "p", "s", ":", "/", "/">>, <<"/", "/">> } : StartsWith(c.id, p)
  THEN Return("external-url", RecRes(c.id, TRUE), prev.s)
  ELSE IF StartsWith(TrimStart(c.id), <<"d", "a", "t", "a", ":">>)
       THEN Return("data-url", [t |-> "null", id |-> <<>>, external |-> FALSE], prev.s)
  ELSE IF ~IsBareImport(c.id) THEN Return("fallthrough", NoRes, prev.s)
  ELSE IF ~External(c) /\ conf.asSrc /\ conf.hasOptimizer /\ ~conf.scan
       THEN [prev EXCEPT !.pc = "await"]
       ELSE prev

\* A mutant: a built-in is externalized whatever ssr.noExternal says.
BuiltinStepNoError(prev, c) ==
  IF ~isBuiltin(c.id) THEN Return("fallthrough", NoRes, prev.s)
  ELSE IF c.ssr THEN Return("builtin", RecRes(c.id, TRUE), prev.s)
  ELSE Return("builtin",
              StrRes(IF conf.isProduction THEN browserExternalId
                     ELSE browserExternalId \o <<":">> \o c.id),
              prev.s)

\* resolve.ts 303-335: node built-ins, and the fallthrough.
BuiltinStep(prev, c) ==
  IF ~isBuiltin(c.id) THEN Return("fallthrough", NoRes, prev.s)
  ELSE IF c.ssr
       THEN IF conf.ssrNoExternal
            THEN Raise("builtin",
                       [kind |-> "builtin", a |-> c.id,
                        b |-> IF c.importer # <<>> THEN PathRelative(Root, c.importer) ELSE <<>>],
                       prev.s)
            ELSE Return("builtin", RecRes(c.id, TRUE), prev.s)
  ELSE Return("builtin",
              StrRes(IF conf.isProduction THEN browserExternalId
                     ELSE browserExternalId \o <<":">> \o c.id),
              prev.s)

\* One branch of resolveId.
Branch(b, prev, c) ==
  IF prev.pc # "run" THEN prev
  ELSE IF b \in {"fs", "url", "relative", "absolute"}
       THEN IF ~ProbeGuard(b, c) THEN prev
            ELSE ProbeOutcome(tryFsResolve(ProbePath(b, c), OptionsOf(c), TRUE, TRUE,
                                           prev.s.st, 0),
                              b, prev.s,
                              IF b = "relative" /\ c.importer # <<>>
                              THEN MapGet(prev.s.ids, c.importer) ELSE <<>>,
                              FALSE, ProbeFallback(b, c))
  ELSE IF b = "relative-file" THEN RelativeFileStep(prev, c)
  ELSE IF b \in {"relative-node", "node"} THEN NodeResolveStep(prev, c, b = "relative-node")
  ELSE IF b \in {"relative-browser", "browser"}
       THEN BrowserMappingStep(prev, c, b = "relative-browser")
  ELSE IF b = "bare" THEN BareStart(prev, c)
  ELSE IF b = "optimized" THEN tryOptimizedResolve(c, prev.s)
  ELSE BuiltinStep(prev, c)

\* The branches from the first of `branches` on.
RECURSIVE RunBranches(_, _, _)
RunBranches(branches, prev, c) ==
  IF branches = <<>> THEN prev
  ELSE RunBranches(Tail(branches), Branch(Head(branches), prev, c), c)

\* resolveId (resolve.ts 103-336) from its start to its return or to its
\* await, and, when resumed, from its await to its return.
resolveId(c, s, resumed) ==
  RunBranches(IF resumed THEN <<"optimized", "browser", "node", "builtin">>
              ELSE <<"fs", "url", "relative-file", "relative-node", "relative-browser",
                     "relative", "absolute", "bare", "browser", "node", "builtin">>,
              IF resumed THEN Pending(s) ELSE EarlyReturn(c, s),
              c)

(***************************************************************************)
(* The host: a project with the module /p/main.js that imports foo, and    *)
(* the resolveId calls made for it.                                        *)
(***************************************************************************)
MainFile == <<"/", "p", "/", "m", "a", "i", "n", ".", "j", "s">>

FooIndexFile == <<"/", "p", "/", "n", "o", "d", "e", "_", "m", "o", "d", "u", "l", "e", "s", "/", "f", "o", "o", "/", "i", "n", "d", "e", "x", ".", "j", "s">>

MainWorlds ==
  { [MakeFs(FooFiles, {}, manifest) EXCEPT !.files = @ \cup {MainFile}] :
      manifest \in {ConditionalExportsManifest, BrowserMapManifest, MissingMainManifest} }

\* The ids shouldExternalize accepts, when it accepts any.
ExternalIds == { <<"f", "o", "o">>, <<"f", "o", "o", "/", "l", "i", "b", "/", "s", "u", "b">>, <<"f", "o", "o", "/", "s", "u", "b">>, <<"b", "a", "r">> }

Configs ==
  { Config(m[1], m[2], e[1], e[2], e[3]) :
      m \in { <<"dev", TRUE>>, <<"dev", FALSE>>, <<"build", FALSE>> },
      e \in { <<FALSE, {}, "node">>, <<TRUE, {}, "node">>,
              <<FALSE, ExternalIds, "node">>, <<FALSE, ExternalIds, "webworker">> } }

\* The arguments of a resolveId call: id, importer, resolveOpts.ssr and
\* resolveOpts.custom['node-resolve'].isRequire.
Call(id, importer, ssr, isRequire) ==
  [id |-> id, importer |-> importer, ssr |-> ssr, isRequire |-> isRequire]

CallInputs ==
  { Call(<<"f", "o", "o">>, MainFile, FALSE, FALSE), Call(<<"f", "o", "o">>, MainFile, FALSE, TRUE),
    Call(<<"f", "o", "o">>, MainFile, TRUE, FALSE), Call(<<"f", "o", "o">>, MainFile, TRUE, TRUE),
    Call(<<"f", "o", "o", "/", "l", "i", "b", "/", "s", "u", "b">>, MainFile, FALSE, FALSE), Call(<<"f", "o", "o", "/", "l", "i", "b", "/", "s", "u", "b">>, MainFile, TRUE, FALSE),
    Call(<<"f", "o", "o", "/", "s", "u", "b">>, MainFile, FALSE, FALSE),
    Call(<<"f", "s">>, MainFile, FALSE, FALSE), Call(<<"f", "s">>, MainFile, TRUE, FALSE),
    Call(<<"f", "s">>, FooBrowserFile, FALSE, FALSE),
    Call(<<"b", "a", "r">>, FooBrowserFile, FALSE, FALSE),
    Call(<<"/", "@", "f", "s", "/", "p", "/", "n", "o", "d", "e", "_", "m", "o", "d", "u", "l", "e", "s", "/", "f", "o", "o">>, <<>>, FALSE, FALSE),
    Call(<<"/", "@", "f", "s", "/", "p", "/", "n", "o", "p", "e", ".", "j", "s">>, <<>>, FALSE, FALSE),
    Call(<<"/", "@", "f", "s", "/", "p", "/", "n", "o", "p", "e", ".", "j", "s", "?", "c", "o", "m", "m", "o", "n", "j", "s", "-", "p", "r", "o", "x", "y">>, <<>>, FALSE, FALSE),
    Call(<<".", "/", "l", "i", "b", "/", "s", "u", "b", ".", "j", "s">>, FooBrowserFile, FALSE, FALSE),
    Call(<<".", "/", "l", "i", "b", "/", "s", "u", "b", ".", "j", "s">>, FooIndexFile, TRUE, FALSE),
    Call(<<".", "/", "n", "o", "d", "e", "_", "m", "o", "d", "u", "l", "e", "s", "/", "f", "o", "o">>, MainFile, FALSE, FALSE),
    Call(<<"/", "n", "o", "d", "e", "_", "m", "o", "d", "u", "l", "e", "s", "/", "f", "o", "o">>, MainFile, TRUE, FALSE),
    Call(<<"_", "_", "v", "i", "t", "e", "-", "b", "r", "o", "w", "s", "e", "r", "-", "e", "x", "t", "e", "r", "n", "a", "l", ":", "f", "s">>, <<>>, FALSE, FALSE),
    Call(<<"h", "t", "t", "p", ":", "/", "/", "x">>, MainFile, FALSE, FALSE),
    Call(<<"d", "a", "t", "a", ":", "x">>, MainFile, FALSE, FALSE),
    Call(<<"/", "m", "a", "i", "n", ".", "j", "s">>, <<>>, FALSE, FALSE),
    Call(<<"/", "p", "/", "m", "a", "i", "n", ".", "j", "s">>, <<>>, FALSE, FALSE),
    Call(<<".", "/", "f", "o", "o", ".", "j", "s">>, <<"/", "p", "/", "n", "o", "d", "e", "_", "m", "o", "d", "u", "l", "e", "s", "/", ".", "v", "i", "t", "e", "/", "d", "e", "p", "s", "/", "b", "a", "r", ".", "j", "s">>, FALSE, FALSE),
    Call(<<"/", "n", "o", "d", "e", "_", "m", "o", "d", "u", "l", "e", "s", "/", ".", "v", "i", "t", "e", "/", "d", "e", "p", "s", "/", "f", "o", "o", ".", "j", "s">>, <<>>, FALSE, FALSE) }

\* The module state a call runs on; st is what the call itself has done so far.
StateOf(st) ==
  [web |-> webResolvedImports, node |-> nodeResolvedImports, ids |-> idToPkgMap,
   deps |-> optimizer.deps, st |-> st]

InitMain ==
  /\ fsys \in MainWorlds
  /\ conf \in Configs
  /\ calls = <<>>
  /\ idToPkgMap = EmptyMap
  /\ optimizer = [scanning |-> conf.hasOptimizer, deps |-> {}]
  /\ webResolvedImports = NoCache
  /\ nodeResolvedImports = NoCache
  /\ last = NoCall
  /\ PureIdle

\* The call i is now where out says, and the module state is what it left.
Commit(out, i, c) ==
  /\ calls' = [k \in 1..(IF i > Len(calls) THEN i ELSE Len(calls)) |->
                 IF k = i
                 THEN [id |-> c.id, importer |-> c.importer, ssr |-> c.ssr,
                       isRequire |-> c.isRequire, pc |-> out.pc, via |-> out.via,
                       res |-> out.res, err |-> out.err, st |-> out.s.st]
                 ELSE calls[k]]
  /\ webResolvedImports' = out.s.web
  /\ nodeResolvedImports' = out.s.node
  /\ idToPkgMap' = out.s.ids
  /\ optimizer' = [optimizer EXCEPT !.deps = out.s.deps]
  /\ UNCHANGED <<conf, fsys, last, pureVars>>

\* The host calls resolveId; the call runs to its return or to its await.
ResolveId ==
  \E c \in CallInputs :
    /\ Len(calls) < MaxCalls
    /\ Commit(resolveId(c, StateOf(St0), FALSE), Len(calls) + 1, c)

\* A call that awaited scanProcessing goes on once the scan is over.
ResumeResolveId ==
  \E i \in 1..Len(calls) :
    /\ calls[i].pc = "await"
    /\ ~optimizer.scanning
    /\ Commit(resolveId(Call(calls[i].id, calls[i].importer, calls[i].ssr, calls[i].isRequire),
                        StateOf(calls[i].st), TRUE),
              i, calls[i])

\* The scan of the optimizer ends: scanProcessing resolves.
ScanProcessingDone ==
  /\ optimizer.scanning
  /\ optimizer' = [optimizer EXCEPT !.scanning = FALSE]
  /\ UNCHANGED <<conf, calls, idToPkgMap, fsys, webResolvedImports, nodeResolvedImports,
                 last, pureVars>>

Next ==
  \/ ResolveId
  \/ ResumeResolveId
  \/ ScanProcessingDone

Spec == InitMain /\ [][Next]_vars

(***************************************************************************)
(* Properties of the entry-point and deep-import resolvers.                *)
(***************************************************************************)
FooData == loadPackageData(FooDir)

\* The last call is one the UMD heuristic applies to: targetWeb, not a require,
\* no entry (or a '.mjs' entry) from exports, a browser entry and a different
\* string 'module' field.
HeuristicApplies ==
  /\ last.fn = "resolvePackageEntry" /\ ~last.hit
  /\ last.targetWeb /\ ~last.o.isRequire
  /\ UnsetOrMjs(EntryFromExports(FooData, last.o, last.targetWeb))
  /\ BrowserEntry(FooData) # <<>>
  /\ StringField(FooData, "module") # <<>>
  /\ StringField(FooData, "module") # BrowserEntry(FooData)

BrowserEntryFile == PathJoin(FooDir, BrowserEntry(FooData))

\* C2: when the UMD heuristic applies, the selected entry is the 'module' field
\* if the browser entry file matches the UMD/CJS patterns, and the browser entry
\* if the file does not match them.
C2_UmdHeuristic ==
  (HeuristicApplies /\ BrowserEntryFile \in fsys.files) =>
    IF BrowserEntryFile \in fsys.umd
    THEN last.entry = StringField(FooData, "module")
    ELSE last.entry = BrowserEntry(FooData)

\* The arguments of the call c2 equal those of the call c1.
SameArguments(c1, c2) ==
  /\ c1.fn = c2.fn /\ c1.key = c2.key
  /\ c1.targetWeb = c2.targetWeb /\ c1.o = c2.o

IsMemoizedCall(c) == c.fn \in {"resolvePackageEntry", "resolveDeepImport"}

\* C3 as stated: two successive calls of resolvePackageEntry or
\* resolveDeepImport with equal arguments return identical results, and the
\* second performs no filesystem probe.
C3_Memoized_Original ==
  [][(IsMemoizedCall(last) /\ last'.n = last.n + 1 /\ SameArguments(last, last'))
       => (last'.val = last.val /\ last'.err = last.err /\ last'.io = 0)]_vars

\* C3 (amended): two successive calls of resolvePackageEntry or
\* resolveDeepImport with equal arguments, the first of which returned a
\* result, return identical results, and the second performs no filesystem
\* probe.
C3_Memoized ==
  [][(IsMemoizedCall(last) /\ last'.n = last.n + 1 /\ SameArguments(last, last')
        /\ last.val # <<>>)
       => (last'.val = last.val /\ last'.err = last.err /\ last'.io = 0)]_vars

\* A second resolveDeepImport call was answered from the resolved cache, which
\* only a first call with the same subpath and targetWeb can have filled.
C3_Witness ==
  last.n = 2 /\ last.fn = "resolveDeepImport" /\ last.hit /\ last.io = 0

\* The manifest's exports field does not expose the subpath of the last call.
SubpathNotExposed ==
  /\ last.fn = "resolveDeepImport" /\ ~last.hit
  /\ FooData.exports.t # "none"
  /\ \/ FooData.exports.t # "object"
     \/ resolveExports(FooData, splitFileAndPostfix(last.key).file,
                       last.o, last.targetWeb) = Undefined

\* C4: a deep import of a subpath that exports does not expose raises an error
\* whose message contains the requested subpath and the path of the package's
\* package.json, returns no result and leaves the resolved cache as it was.
C4_SubpathNotExposed ==
  SubpathNotExposed =>
    /\ last.err.kind = "subpath"
    /\ Includes(Message(last.err), last.key)
    /\ Includes(Message(last.err), FooManifestPath)
    /\ last.val = <<>>
    /\ ~last.wrote

\* C10: every call of tryFsResolve and of resolvePackageEntry terminates: the
\* recursion through tryResolveFile never comes back to a directory it is
\* already resolving, so it never exhausts the call stack.
C10_Terminates ==
  last.fn \in {"tryFsResolve", "resolvePackageEntry"} => ~last.ovf

(***************************************************************************)
(* Properties of resolveId.                                                *)
(***************************************************************************)
\* A call of resolveId that has returned a string or a record.
ReturnedId(call) ==
  call.pc = "done" /\ call.err = NoErr /\ call.res.t \in {"string", "record"}

\* id is the browser-external sentinel, bare or with a ':<id>' suffix.
IsSentinel(id) ==
  id = browserExternalId \/ StartsWith(id, browserExternalId \o <<":">>)

\* id is a normalized absolute path, a query or hash after it left aside.
IsNormalizedAbsolute(id) ==
  isAbsolute(id) /\ PosixNormalize(cleanUrl(id)) = cleanUrl(id)

\* The id of an external result that is not the specifier: the specifier of a
\* deep import into a package without exports, with the extension of the file
\* it resolved to, or the file a browser field maps the specifier to.
IsPatchedExternal(call) ==
  \/ /\ call.via = "node"
     /\ Includes(call.id, <<"/">>)
     /\ loadPackageData(FooDir).exports = NoExports
     /\ PathExtname(call.res.id) # <<>>
     /\ PathExtname(call.id) # PathExtname(call.res.id)
     /\ call.res.id = call.id \o PathExtname(call.res.id)
  \/ /\ call.via = "browser-map"
     /\ IsNormalizedAbsolute(call.res.id)

\* C1 as stated: an id that resolveId returns is the browser-external sentinel,
\* a normalized absolute path or, in a record with external: true, exactly the
\* specifier that was passed in.
C1_ReturnedIds_Original ==
  \A i \in 1..Len(calls) :
    ReturnedId(calls[i]) =>
      IF calls[i].res.external
      THEN calls[i].res.id = calls[i].id
      ELSE IsSentinel(calls[i].res.id) \/ IsNormalizedAbsolute(calls[i].res.id)

\* C1, amended: an id that resolveId returns is the browser-external sentinel
\* or a normalized absolute path; in a record with external: true it is the
\* specifier that was passed in, or that specifier with the extension of the
\* resolved file appended (a deep import into a package without exports), or
\* the absolute path of the file that a browser field maps the specifier to.
C1_ReturnedIds ==
  \A i \in 1..Len(calls) :
    ReturnedId(calls[i]) =>
      IF calls[i].res.external
      THEN calls[i].res.id = calls[i].id \/ IsPatchedExternal(calls[i])
      ELSE IsSentinel(calls[i].res.id) \/ IsNormalizedAbsolute(calls[i].res.id)

\* An externalized deep import came back with the extension of its file.
C1_Witness ==
  \E i \in 1..Len(calls) :
    /\ ReturnedId(calls[i])
    /\ calls[i].id = <<"f", "o", "o", "/", "l", "i", "b", "/", "s", "u", "b">>
    /\ calls[i].res = RecRes(<<"f", "o", "o", "/", "l", "i", "b", "/", "s", "u", "b", ".", "j", "s">>, TRUE)

\* A bare built-in that neither the optimizer, nor a browser field, nor
\* tryNodeResolve resolved.
UnresolvedBuiltin(call) ==
  /\ call.pc = "done"
  /\ IsBareImport(call.id)
  /\ isBuiltin(call.id)
  /\ call.via \notin {"optimized", "browser-map", "node"}

\* C7: for a bare built-in that the optimizer, the browser field and
\* tryNodeResolve all miss, resolveId returns { id, external: true } under ssr,
\* raises an error instead when ssr.noExternal is true, and without ssr
\* returns the bare sentinel in production and 'sentinel:<id>' in development.
C7_Builtin ==
  \A i \in 1..Len(calls) :
    UnresolvedBuiltin(calls[i]) =>
      IF calls[i].ssr
      THEN IF conf.ssrNoExternal
           THEN calls[i].err.kind = "builtin" /\ calls[i].res = NoRes
           ELSE calls[i].err = NoErr /\ calls[i].res = RecRes(calls[i].id, TRUE)
      ELSE /\ calls[i].err = NoErr
           /\ calls[i].res = StrRes(IF conf.isProduction THEN browserExternalId
                                    ELSE browserExternalId \o <<":">> \o calls[i].id)

\* 'fs' under ssr with ssr.noExternal true has raised the error.
C7_Witness ==
  \E i \in 1..Len(calls) :
    /\ UnresolvedBuiltin(calls[i])
    /\ calls[i].id = <<"f", "s">>
    /\ calls[i].ssr
    /\ conf.ssrNoExternal
    /\ calls[i].err.kind = "builtin"

\* C8: with asSrc, a specifier that starts with '/@fs/' (and is no
\* browser-external id, commonjs proxy or optimized-dep url) always gets a
\* string from the '/@fs/' branch: the file the probe found, or else the
\* specifier without its prefix.
C8_FsPrefix ==
  \A i \in 1..Len(calls) :
    ( /\ calls[i].pc = "done"
      /\ conf.asSrc
      /\ StartsWith(calls[i].id, FS_PREFIX)
      /\ calls[i].via \notin {"browser-external", "commonjs", "optimized-url"} )
    => /\ calls[i].via = "fs"
       /\ calls[i].err = NoErr
       /\ calls[i].res.t = "string"
       /\ \/ IsRegularFile(cleanUrl(calls[i].res.id))
          \/ calls[i].res.id = fsPathFromId(calls[i].id)

\* The call made alone, on a module that has resolved nothing yet.
SoloResume(out, c) == IF out.pc = "await" THEN resolveId(c, out.s, TRUE) ELSE out

Solo(c) ==
  SoloResume(resolveId(c, [web |-> NoCache, node |-> NoCache, ids |-> EmptyMap,
                           deps |-> {}, st |-> St0], FALSE), c)

\* C9: a call made for the project's module returns what it returns when it
\* is the first of the calls to run, whatever calls ran before it or between
\* its await and its return: the shared caches never change a result.
C9_SameResultInAnyOrder ==
  \A i \in 1..Len(calls) :
    (calls[i].pc = "done" /\ calls[i].importer = MainFile) =>
      /\ calls[i].res = Solo(Call(calls[i].id, calls[i].importer, calls[i].ssr,
                                  calls[i].isRequire)).res
      /\ calls[i].err = Solo(Call(calls[i].id, calls[i].importer, calls[i].ssr,
                                  calls[i].isRequire)).err

\* C13: a call whose targetWeb is false never consults the browser field of a
\* manifest: on the package whose browser field maps ./index.js to
\* ./foo.browser.js, such a call never returns foo.browser.js, the file that
\* only the browser field names.
C13_BrowserFieldNotConsulted ==
  \A i \in 1..Len(calls) :
    ( /\ calls[i].pc = "done"
      /\ ~TargetWeb(calls[i])
      /\ loadPackageData(FooDir) = BrowserMapManifest )
    => ~(ReturnedId(calls[i]) /\ cleanUrl(calls[i].res.id) = FooBrowserFile)


(***************************************************************************)
(* tryNodeResolve called on a project where the package x carries its own  *)
(* copy of foo in a nested node_modules.                                   *)
(***************************************************************************)
XDir == <<"/", "p", "/", "n", "o", "d", "e", "_", "m", "o", "d", "u", "l", "e", "s", "/", "x">>

XIndexFile == <<"/", "p", "/", "n", "o", "d", "e", "_", "m", "o", "d", "u", "l", "e", "s", "/", "x", "/", "i", "n", "d", "e", "x", ".", "j", "s">>

NestedFooDir == <<"/", "p", "/", "n", "o", "d", "e", "_", "m", "o", "d", "u", "l", "e", "s", "/", "x", "/", "n", "o", "d", "e", "_", "m", "o", "d", "u", "l", "e", "s", "/", "f", "o", "o">>

\* package.json of both copies of foo.
PlainManifest == Manifest([main |-> <<"i", "n", "d", "e", "x", ".", "j", "s">>], NoBrowser, NoExports)

\* The files of a copy of foo.
CopyOfFoo(dir) ==
  { dir \o <<"/", "p", "a", "c", "k", "a", "g", "e", ".", "j", "s", "o", "n">>, dir \o <<"/", "i", "n", "d", "e", "x", ".", "j", "s">>, dir \o <<"/", "l", "i", "b", "/", "s", "u", "b", ".", "j", "s">> }

\* The project with the nested copy of foo, with and without a copy in the
\* node_modules of root.
NodeWorlds ==
  { [files |-> {MainFile, XIndexFile} \cup UNION { CopyOfFoo(d) : d \in copies },
     dirs |-> {<<"/">>, Root, NodeModulesDir, XDir, XDir \o <<"/", "n", "o", "d", "e", "_", "m", "o", "d", "u", "l", "e", "s">>}
                \cup copies \cup { d \o <<"/", "l", "i", "b">> : d \in copies },
     umd |-> {},
     manifests |-> [d \in copies |-> PlainManifest]] :
      copies \in { {FooDir, NestedFooDir}, {NestedFooDir} } }

\* Development without an optimizer, for each value of options.dedupe.
NodeConfigs ==
  { [Config("dev", FALSE, FALSE, {}, "node") EXCEPT !.dedupe = d] :
      d \in { {}, {<<"f", "o", "o">>}, {<<"f", "o", "o", "/", "l", "i", "b">>}, {<<"b", "a", "r">>} } }

\* The specifiers and importers tryNodeResolve is called with: no importer, a
\* module of the project, a module of x (as it is and with a query), a module
\* of x that does not exist, and an importer that is not an absolute path.
NodeCalls ==
  { Call(id, importer, FALSE, FALSE) :
      id \in { <<"f", "o", "o">>, <<"f", "o", "o", "/", "l", "i", "b", "/", "s", "u", "b">> },
      importer \in { <<>>, MainFile, XIndexFile, <<"/", "p", "/", "n", "o", "d", "e", "_", "m", "o", "d", "u", "l", "e", "s", "/", "x", "/", "i", "n", "d", "e", "x", ".", "j", "s", "?", "v", "=", "1">>,
                     <<"/", "p", "/", "n", "o", "d", "e", "_", "m", "o", "d", "u", "l", "e", "s", "/", "x", "/", "g", "o", "n", "e", ".", "j", "s">>, <<"n", "o", "d", "e", "_", "m", "o", "d", "u", "l", "e", "s", "/", "x", "/", "i", "n", "d", "e", "x", ".", "j", "s">> } }

InitNode ==
  /\ fsys \in NodeWorlds
  /\ conf \in NodeConfigs
  /\ calls = <<>>
  /\ idToPkgMap = EmptyMap
  /\ optimizer = [scanning |-> FALSE, deps |-> {}]
  /\ webResolvedImports = [d \in {FooDir, NestedFooDir} |-> EmptyMap]
  /\ nodeResolvedImports = [d \in {FooDir, NestedFooDir} |-> EmptyMap]
  /\ last = NoCall
  /\ PureIdle

\* tryNodeResolve returns undefined when no branch of it returned.
NodeReturned(out) == IF out.pc = "run" THEN Return("node", NoRes, out.s) ELSE out

\* A call tryNodeResolve(id, importer, options, targetWeb).
CallTryNodeResolve ==
  \E c \in NodeCalls :
    /\ Len(calls) < MaxCalls
    /\ Commit(NodeReturned(tryNodeResolve(c.id, c.importer, TargetWeb(c), c.ssr, FALSE,
                                          OptionsOf(c), StateOf(St0))),
              Len(calls) + 1, c)

NextNode == CallTryNodeResolve

SpecNode == InitNode /\ [][NextNode]_vars

\* The directory C11 says the lookup of a call starts from.
ClaimedBasedir(call) ==
  IF \E k \in 1..Len(possiblePkgIdsOf(call.id)) : possiblePkgIdsOf(call.id)[k] \in conf.dedupe
  THEN Root
  ELSE IF /\ call.importer # <<>>
          /\ isAbsolute(call.importer)
          /\ (IsRegularFile(cleanUrl(call.importer)) \/ IsDirectory(cleanUrl(call.importer)))
       THEN dirname(call.importer)
       ELSE Root

\* The call resolved into the copy of foo in dir, or to nothing when dir is ''.
ResolvedInto(call, dir) ==
  IF dir = <<>> THEN call.err = NoErr /\ call.res = NoRes
  ELSE ReturnedId(call) /\ StartsWith(call.res.id, dir \o <<"/">>)

\* C11: the package tryNodeResolve resolves into is the one found from root
\* when a candidate package id of the specifier is listed in dedupe, from the
\* directory of the importer when that is an absolute path that exists once
\* its query and hash are stripped, and from root in every other case.
C11_Basedir ==
  \A i \in 1..Len(calls) :
    ResolvedInto(calls[i], resolvePackageData(<<"f", "o", "o">>, ClaimedBasedir(calls[i])))

\* foo is deduped and imported by a module of x, which has its own copy: the
\* copy of root is the one resolved.
C11_Witness ==
  \E i \in 1..Len(calls) :
    /\ calls[i].id = <<"f", "o", "o">>
    /\ calls[i].importer = XIndexFile
    /\ <<"f", "o", "o">> \in conf.dedupe
    /\ NestedFooDir \in DOMAIN fsys.manifests
    /\ calls[i].res.id = <<"/", "p", "/", "n", "o", "d", "e", "_", "m", "o", "d", "u", "l", "e", "s", "/", "f", "o", "o", "/", "i", "n", "d", "e", "x", ".", "j", "s">>


(***************************************************************************)
(* tryFsResolve called on a directory /p that holds some of the files and  *)
(* directories a request for /p/x may stand for.                           *)
(***************************************************************************)
XMainFile == <<"/", "p", "/", "x", "/", "m", "a", "i", "n", ".", "j", "s">>

\* The regular files a world may hold next to x; '/p/x?q' is a file whose
\* name contains a question mark.
OptionalProbeFiles ==
  { <<"/", "p", "/", "x", ".", "j", "s">>, <<"/", "p", "/", "x", ".", "t", "s">>, <<"/", "p", "/", "x", ".", "t", "s", "x">>, <<"/", "p", "/", "x", ".", "m", "t", "s">>, <<"/", "p", "/", "_", "x", ".", "j", "s">>, <<"/", "p", "/", "_", "x", ".", "t", "s">>, <<"/", "p", "/", "x", "?", "q">> }

\* What /p/x and the directory named '/p/x?q' are: dirs are the directories
\* that exist, files their files, pkg whether /p/x has a package.json (whose
\* main is main.js).
ProbeDirChoices ==
  { [dirs |-> {}, files |-> {}, pkg |-> FALSE],
    [dirs |-> {<<"/", "p", "/", "x">>}, files |-> {}, pkg |-> FALSE],
    [dirs |-> {<<"/", "p", "/", "x">>}, files |-> {<<"/", "p", "/", "x", "/", "i", "n", "d", "e", "x", ".", "j", "s">>}, pkg |-> FALSE],
    [dirs |-> {<<"/", "p", "/", "x">>}, files |-> {<<"/", "p", "/", "x", "/", "p", "a", "c", "k", "a", "g", "e", ".", "j", "s", "o", "n">>, XMainFile}, pkg |-> TRUE],
    [dirs |-> {<<"/", "p", "/", "x", "?", "q">>}, files |-> {<<"/", "p", "/", "x", "?", "q", "/", "i", "n", "d", "e", "x", ".", "j", "s">>}, pkg |-> FALSE],
    [dirs |-> {<<"/", "p", "/", "x">>, <<"/", "p", "/", "x", "?", "q">>}, files |-> {<<"/", "p", "/", "x", "/", "i", "n", "d", "e", "x", ".", "j", "s">>, <<"/", "p", "/", "x", "?", "q", "/", "i", "n", "d", "e", "x", ".", "j", "s">>},
     pkg |-> FALSE] }

\* A path is never both a regular file and a directory.
ProbeWorlds ==
  UNION { { [files |-> present \cup d.files,
             dirs |-> {<<"/">>, Root} \cup d.dirs,
             umd |-> {},
             manifests |-> [m \in (IF d.pkg THEN {<<"/", "p", "/", "x">>} ELSE {}) |->
                              Manifest([main |-> <<"m", "a", "i", "n", ".", "j", "s">>], NoBrowser, NoExports)]] :
              present \in SUBSET (OptionalProbeFiles \ d.dirs) } :
          d \in ProbeDirChoices }

\* The paths tryFsResolve is called with.
ProbePaths == { <<"/", "p", "/", "x">>, <<"/", "p", "/", "x", "?", "q">>, <<"/", "p", "/", "x", ".", "j", "s">>, <<"/", "p", "/", "x", ".", "j", "s", "?", "q">> }

\* The options of a probe: options.tryPrefix and options.isFromTsImporter.
ProbeOptions(tryPrefix, isFromTsImporter) ==
  [Options(FALSE, DEFAULT_MAIN_FIELDS) EXCEPT !.tryPrefix = tryPrefix,
                                               !.isFromTsImporter = isFromTsImporter]

InitProbe ==
  /\ fsys \in ProbeWorlds
  /\ webResolvedImports = NoCache
  /\ nodeResolvedImports = NoCache
  /\ last = NoCall
  /\ PureIdle
  /\ ResolverIdle

\* A call tryFsResolve(fsPath, options).
ProbeTryFsResolve ==
  \E fsPath \in ProbePaths, tryPrefix \in { <<>>, <<"_">> }, isFromTsImporter \in BOOLEAN :
    /\ last.n < MaxCalls
    /\ last' = Called("tryFsResolve", fsPath, TRUE, ProbeOptions(tryPrefix, isFromTsImporter),
                      tryFsResolve(fsPath, ProbeOptions(tryPrefix, isFromTsImporter),
                                   TRUE, TRUE, St0, 0),
                      <<>>, FALSE)
    /\ UNCHANGED <<fsys, webResolvedImports, nodeResolvedImports, pureVars, resolverVars>>

\* A call tryResolveFile(file, '', options, false, true, options.tryPrefix).
ProbeTryResolveFile ==
  \E file \in { <<"/", "p", "/", "x">>, <<"/", "p", "/", "x", ".", "j", "s">> }, tryPrefix \in { <<>>, <<"_">> },
     isFromTsImporter \in BOOLEAN :
    /\ last.n < MaxCalls
    /\ last' = Called("tryResolveFile", file, TRUE, ProbeOptions(tryPrefix, isFromTsImporter),
                      tryResolveFile(file, <<>>, ProbeOptions(tryPrefix, isFromTsImporter),
                                     FALSE, TRUE, tryPrefix, FALSE, St0, 0),
                      <<>>, FALSE)
    /\ UNCHANGED <<fsys, webResolvedImports, nodeResolvedImports, pureVars, resolverVars>>

NextProbe ==
  \/ ProbeTryFsResolve
  \/ ProbeTryResolveFile

SpecProbe == InitProbe /\ [][NextProbe]_vars

\* A candidate of C12: a path and the postfix appended to what it yields.
Candidate(file, postfix) == [file |-> file, postfix |-> postfix]

\* The literal path, a candidate only when the path has a postfix.
LiteralCandidate(literal, sp) ==
  IF sp.postfix # <<>> THEN << Candidate(literal, <<>>) >> ELSE <<>>

RECURSIVE ExtensionCandidates(_, _, _, _)
ExtensionCandidates(fsPath, sp, exts, i) ==
  IF i > Len(exts) THEN <<>>
  ELSE LiteralCandidate(fsPath \o exts[i], sp) \o << Candidate(sp.file \o exts[i], sp.postfix) >>
         \o ExtensionCandidates(fsPath, sp, exts, i + 1)

\* The candidates (1) to (3) of C12, tried as regular files.
FileCandidates(fsPath, sp, exts) ==
  LiteralCandidate(fsPath, sp) \o << Candidate(sp.file, sp.postfix) >>
    \o ExtensionCandidates(fsPath, sp, exts, 1)

\* The candidates (4) and (5) of C12, tried as directories.
DirectoryCandidates(fsPath, sp) ==
  LiteralCandidate(fsPath, sp) \o << Candidate(sp.file, sp.postfix) >>

\* What a candidate yields as a regular file.
FileYield(c) == IF IsRegularFile(c.file) THEN c.file \o c.postfix ELSE <<>>

\* What a candidate yields as a directory of the worlds above: the main file of
\* its package.json, else its index.js.
DirectoryYield(c) ==
  IF ~IsDirectory(c.file) THEN <<>>
  ELSE IF HasManifest(c.file) THEN XMainFile
  ELSE IF IsRegularFile(c.file \o <<"/", "i", "n", "d", "e", "x", ".", "j", "s">>) THEN c.file \o <<"/", "i", "n", "d", "e", "x", ".", "j", "s">> \o c.postfix
  ELSE <<>>

\* The first non-empty element of a sequence of yields, '' when there is none.
FirstYield(ys) ==
  IF \A k \in 1..Len(ys) : ys[k] = <<>> THEN <<>>
  ELSE ys[CHOOSE k \in 1..Len(ys) : ys[k] # <<>> /\ \A j \in 1..(k - 1) : ys[j] = <<>>]

\* The result C12 states for tryFsResolve(fsPath) with the extensions exts.
FirstCandidate(fsPath, exts) ==
  FirstYield([k \in 1..Len(FileCandidates(fsPath, splitFileAndPostfix(fsPath), exts)) |->
                FileYield(FileCandidates(fsPath, splitFileAndPostfix(fsPath), exts)[k])]
             \o [k \in 1..Len(DirectoryCandidates(fsPath, splitFileAndPostfix(fsPath))) |->
                   DirectoryYield(DirectoryCandidates(fsPath, splitFileAndPostfix(fsPath))[k])])

\* The probe of a candidate has nothing else to try: no tryPrefix and no
\* TypeScript importer.
PlainProbe(o) == o.tryPrefix = <<>> /\ ~o.isFromTsImporter

C14_OnlyTsSources ==
  ( /\ last.fn = "tryResolveFile"
    /\ last.o.isFromTsImporter
    /\ isPossibleTsOutput(last.key)
    /\ ~isFileReadable(last.key) )
  => /\ last.err = NoErr
     /\ last.val = FirstYield([k \in 1..Len(getPotentialTsSrcPaths(last.key)) |->
                                FileYield(Candidate(getPotentialTsSrcPaths(last.key)[k], <<>>))])

\* C16: every result of tryFsResolve(fsPath) ends with the postfix of fsPath,
\* whichever candidate produced it.
C16_KeepsPostfix ==
  (last.fn = "tryFsResolve" /\ last.val # <<>>) =>
    EndsWith(last.val, splitFileAndPostfix(last.key).postfix)


\* What the last call returns on a package that has resolved nothing yet.
FreshCall(c) ==
  IF c.fn = "resolvePackageEntry"
  THEN resolvePackageEntry(<<"f", "o", "o">>, FooDir, loadPackageData(FooDir), <<>>, c.targetWeb, c.o,
                           St0, 0)
  ELSE resolveDeepImport(c.key, FooDir, loadPackageData(FooDir), <<>>, c.targetWeb, c.o, St0)

\* C15: the result of resolvePackageEntry and of resolveDeepImport is
\* determined by the package, the subpath, targetWeb, the options and the
\* filesystem: it is what the call returns when no call was made before it.
C15_DeterminedByArguments ==
  IsMemoizedCall(last) =>
    /\ last.val = FreshCall(last).val
    /\ last.err = FreshCall(last).err

=============================================================================
